---------------------------- MODULE Spec2Model ----------------------------
(***************************************************************************)
(* A model of the GuruSahaay frontend (Next.js / React): the fetch-based   *)
(* API client (lib/api.ts), the AuthProvider and the LanguageProvider, the *)
(* voice-recorder hook, the Header, and the help, suggestions, upload,     *)
(* community, login, home, profile and content detail pages.               *)
(*                                                                         *)
(* Conventions.  A JavaScript value that is null, undefined or an absent   *)
(* field is Null; a value parsed from a response body is a record tagged   *)
(* with its type (JNull, JStr, JArr, JObj).  A short string that is only   *)
(* compared (a token, an id) is a TLA+ string, "" being the empty string.  *)
(* A string the code trims or encodes is a sequence of characters.  One    *)
(* React render is one state: a handler                                    *)
(* reads the state variables of the render it was created in, and the      *)
(* values an async handler captured before an await are kept in its own    *)
(* variables.                                                              *)
(***************************************************************************)
EXTENDS Integers, Sequences, FiniteSets, TLC

VARIABLES
    \* lib/api.ts: the module-level token and the browser's localStorage
    authToken, localStorage,
    \* the api client's last call: what setAuthToken last got, what
    \* getAuthToken last returned, the request sent, the response, the outcome
    lastSet, returned, apiReq, apiResp, apiRes,
    \* AuthProvider: its state, whether its mount effect has run, the
    \* getCurrentUser requests in flight, the number of requests sent, and
    \* whether logout() has run since login() was last called; and the
    \* last refreshUser call that finished: how its promise settled, whether
    \* it sent a request, what the request got, and the user and the token
    \* before it and after it
    user, authLoading, mounted, pending, sent, loggedOut, refreshed,
    \* useVoiceRecorder: its state and refs, the browser's side of it (the
    \* getUserMedia calls pending, each MediaRecorder's state, the blobs a
    \* FileReader is reading), and the history the properties speak of: the
    \* non-empty chunks delivered since startRecording was last called and
    \* the blobs built when a recorder stopped
    isRecording, audioBlob, audioBase64, recError, mediaRecorderRef, chunksRef,
    gumPending, recorders, readers, delivered, audioFrom, stopped,
    \* HelpPage: its state, the createHelpRequest calls in flight (each with
    \* the values its handleSubmit captured), where router.push went, and the
    \* response the last handleSubmit got
    selectedProblem, customProblem, loading, error, reqs, nav, settled,
    \* and whether it has sent a voice request with the audio it now holds
    voiceSent,
    \* and whether its last handleSubmit was called by the submit button
    submitClicked,
    \* SuggestionsPage: the concept_id of its URL, its state, whether its
    \* mount effect has run, whether its two requests are in flight, and
    \* where router.push went
    conceptIdParam, suggestions, concept, sugLoading, sugError, helpPosted,
    feedbackContent, sugMounted, sugPending, sugNav,
    \* UploadPage: its state, whether its mount effect has run and which of
    \* its requests are in flight, the handleSubmit that is running (its
    \* step, the values it captured, the suggestion it got, its
    \* finalConceptId and how each of its calls settled), the api calls the
    \* last handleSubmit made, and where router.push went
    selectedFile, title, conceptId, upLoading, upError, cloudinaryReady,
    helpRequests, loadingHelp, selectedHelpRequestId, upMounted, upPending,
    job, calls, upNav,
    \* CommunityPage and HomePage: which of the two is open, its state,
    \* whether its mount effects have run, the getCommunityFeed requests in
    \* flight, the number sent, and whether one of them was rejected
    feedPage, activeTab, feed, feedLoading, refreshing, feedMounted, feedReqs,
    feedSent, feedFailed,
    \* LanguageProvider: its state, whether its effect has run, the imports
    \* of translation files in flight, the number of loadTranslations calls,
    \* and whether one of them was rejected; the last call of t: its
    \* arguments, the translations it read and what it returned
    language, translations, langMounted, langLoads, langSent, langFailed,
    tCall,
    \* Header: its state, whether it is mounted, whether its interval is
    \* set, the getUnreadNotificationCount calls in flight, the number of
    \* calls made, and the notifications of the last call that resolved
    unreadCount, headMounted, headInterval, headReqs, headSent, headLast,
    \* LoginPage: its state, where router.push went, and the handleSubmit
    \* that is running or has run: its step, how apiLogin settled and the
    \* access_token it returned
    phone, password, loginError, loginLoading, loginNav, loginJob,
    \* HomePage and ProfilePage: which of the two is open, whether it has
    \* rendered, where router.push went, its points, the getPoints and
    \* getCommunityFeed requests in flight (each with the user of the render
    \* that sent it), and the number of requests sent
    guardPage, guardMounted, guardNav, points, guardReqs, guardSent,
    \* ContentDetailPage: the id of its URL, its state, whether its effect
    \* has run, and how far its getContentById, recordContentView and
    \* toggleContentLike calls are
    contentId, cdContent, cdLoading, cdError, likesCount, viewsCount, userLiked,
    likeLoading, cdMounted, fetchReq, viewReq, likeReq

tokenVars == <<authToken, localStorage>>
apiVars   == <<lastSet, returned, apiReq, apiResp, apiRes>>
authVars  == <<user, authLoading, mounted, pending, sent, loggedOut, refreshed>>
recVars   == <<isRecording, audioBlob, audioBase64, recError, mediaRecorderRef,
               chunksRef, gumPending, recorders, readers, delivered, audioFrom,
               stopped>>
helpVars  == <<selectedProblem, customProblem, loading, error, reqs, nav, settled,
               voiceSent, submitClicked>>
sugVars   == <<conceptIdParam, suggestions, concept, sugLoading, sugError,
               helpPosted, feedbackContent, sugMounted, sugPending, sugNav>>
upVars    == <<selectedFile, title, conceptId, upLoading, upError, cloudinaryReady,
               helpRequests, loadingHelp, selectedHelpRequestId, upMounted,
               upPending, job, calls, upNav>>
feedVars  == <<feedPage, activeTab, feed, feedLoading, refreshing, feedMounted,
               feedReqs, feedSent, feedFailed>>
langVars  == <<language, translations, langMounted, langLoads, langSent,
               langFailed, tCall>>
headVars  == <<unreadCount, headMounted, headInterval, headReqs, headSent,
               headLast>>
authRest  == <<authLoading, mounted, pending, sent, loggedOut, refreshed>>
loginVars == <<phone, password, loginError, loginLoading, loginNav, loginJob>>
guardVars == <<guardPage, guardMounted, guardNav, points, guardReqs, guardSent>>
detailVars == <<contentId, cdContent, cdLoading, cdError, likesCount, viewsCount,
                userLiked, likeLoading, cdMounted, fetchReq, viewReq, likeReq>>
moreVars  == <<langVars, headVars, loginVars, guardVars, detailVars>>
pageVars  == <<sugVars, upVars, feedVars>>
vars      == <<tokenVars, apiVars, authVars, recVars, helpVars, pageVars,
               moreVars>>

\* what the steps of one part of the program leave alone
OnlyApi   == UNCHANGED <<authVars, recVars, helpVars, pageVars, moreVars>>
OnlyAuth  == UNCHANGED <<apiVars, recVars, helpVars, pageVars, moreVars>>
OnlyHelp  == UNCHANGED <<tokenVars, apiVars, authVars, pageVars, moreVars>>
OnlySug   == UNCHANGED <<tokenVars, apiVars, authVars, recVars, helpVars, upVars,
                         feedVars, moreVars>>
OnlyUp    == UNCHANGED <<tokenVars, apiVars, authVars, recVars, helpVars, sugVars,
                         feedVars, moreVars>>
OnlyFeed  == UNCHANGED <<tokenVars, apiVars, authVars, recVars, helpVars, sugVars,
                         upVars, moreVars>>
OnlyLang  == UNCHANGED <<tokenVars, apiVars, authRest, recVars, helpVars,
                         pageVars, headVars, loginVars, guardVars, detailVars>>
OnlyHead  == UNCHANGED <<tokenVars, apiVars, authRest, recVars, helpVars,
                         pageVars, langVars, loginVars, guardVars, detailVars>>
OnlyLogin == UNCHANGED <<apiVars, recVars, helpVars, pageVars, langVars,
                         headVars, guardVars, detailVars>>
OnlyGuard == UNCHANGED <<apiVars, recVars, helpVars, pageVars, langVars,
                         headVars, loginVars, detailVars>>
OnlyDetail == UNCHANGED <<tokenVars, apiVars, authVars, recVars, helpVars,
                          pageVars, langVars, headVars, loginVars, guardVars>>

(***************************************************************************)
(* JavaScript values                                                       *)
(***************************************************************************)
Null == "NULL"

\* if (v) for a value that is a string or null
Truthy(v) == v # Null /\ v # ""

\* a string as a sequence of characters; SNull is null where such a string
\* is expected
SNull == <<Null>>

\* if (s) for a string that is a sequence of characters, or null
STruthy(s) == s # SNull /\ s # <<>>

\* JSON values, as response.json() yields them; NotJson is a body that does
\* not parse
NotJson     == [t |-> "notjson"]
JNull       == [t |-> "null"]
JUndefined  == [t |-> "undefined"]
JStr(s)     == [t |-> "string", v |-> s]
JArr(a)     == [t |-> "array", v |-> a]
JObj(f)     == [t |-> "object", v |-> f]
NoFields    == <<>>

\* if (v) for a JSON value
JTruthy(v) == /\ v.t \notin {"null", "undefined"}
              /\ ~(v.t = "string" /\ v.v = "")

\* String(v), as new Error(v) applies it to its message
JsString(v) ==
    CASE v.t = "string"    -> v.v
      [] v.t = "object"    -> "[object Object]"
      [] v.t = "array"     -> IF Len(v.v) = 0 THEN ""
                              ELSE IF v.v[1].t = "string" THEN v.v[1].v
                              ELSE "[object Object]"
      [] v.t = "null"      -> "null"
      [] OTHER             -> "undefined"

\* a settled promise
Resolved(v)        == [state |-> "resolved", value |-> v]
Rejected(n, m)     == [state |-> "rejected", name |-> n, message |-> m]
NoCall             == [state |-> "none"]

(***************************************************************************)
(* lib/api.ts: the token                                                   *)
(***************************************************************************)
Tokens == {"t1", "t2"}

isBrowser == TRUE

\* what localStorage.getItem('auth_token') can hold when the module loads:
\* nothing, or a token an earlier session stored (setAuthToken stores only
\* non-empty tokens)
StoredTokens == Tokens \cup {Null}

\* setAuthToken as a plausible slip would have it: the key is never removed
SetAuthTokenKeepsStorage(token) ==
    /\ authToken' = token
    /\ localStorage' = IF isBrowser /\ Truthy(token) THEN token ELSE localStorage

SetAuthToken(token) ==
    /\ authToken' = token
    /\ localStorage' = IF isBrowser
                         THEN (IF Truthy(token) THEN token ELSE Null)
                         ELSE localStorage

\* the value getAuthToken() returns in the current state; the call also
\* leaves it in authToken
GetAuthToken ==
    IF isBrowser /\ ~Truthy(authToken) THEN localStorage ELSE authToken

(***************************************************************************)
(* lib/api.ts: requests                                                    *)
(***************************************************************************)
Bearer(token) == <<"Bearer", token>>

\* headers a caller may pass in options.headers
CallerHeaders == { NoFields,
                   "Authorization" :> <<"Basic", "caller">>,
                   "X-Trace" :> <<"1">> }

\* apiFetch's headers as a plausible slip would have them: the caller's
\* headers spread last, over the token
ApiFetchHeadersCallerWins(token, optHeaders) ==
    LET base == IF Truthy(token)
                  THEN ("Authorization" :> Bearer(token))
                       @@ ("Content-Type" :> <<"application/json">>)
                  ELSE ("Content-Type" :> <<"application/json">>)
    IN  optHeaders @@ base

\* { 'Content-Type': ..., ...options.headers } and then Authorization
ApiFetchHeaders(token, optHeaders) ==
    LET spread == optHeaders @@ ("Content-Type" :> <<"application/json">>)
    IN  IF Truthy(token)
          THEN ("Authorization" :> Bearer(token)) @@ spread
          ELSE spread

\* the file-upload calls: {} and then Authorization
UploadHeaders(token) ==
    IF Truthy(token) THEN ("Authorization" :> Bearer(token)) ELSE NoFields

\* login(): a plain fetch
LoginHeaders == "Content-Type" :> <<"application/json">>

\* the bodies a response is drawn from
Bodies == { NotJson, JNull, JObj(NoFields),
            JObj("detail" :> JStr("")),
            JObj("detail" :> JStr("Invalid token")),
            JObj("detail" :> JArr(<<JObj("msg" :> JStr("field required"))>>)),
            JObj("id" :> JStr("x1")) }

Responses == [ok : BOOLEAN, body : Bodies]

\* v.name, for a JSON value v that is not null
Field(v, name) ==
    IF v.t = "object" /\ name \in DOMAIN v.v THEN v.v[name] ELSE JUndefined

\* error.detail
Detail(errorBody) == Field(errorBody, "detail")

\* const error = await response.json().catch(() => ({ detail: fallback }));
\* throw new Error(error.detail || fallback);
FailureOf(body, fallback) ==
    LET errorBody == IF body = NotJson THEN JObj("detail" :> JStr(fallback)) ELSE body
    IN  IF errorBody.t = "null"
          THEN Rejected("TypeError", "Cannot read properties of null")
          ELSE Rejected("Error", IF JTruthy(Detail(errorBody))
                                   THEN JsString(Detail(errorBody)) ELSE fallback)

\* if (!response.ok) {...}  return response.json();
OutcomeOf(resp, fallback) ==
    IF ~resp.ok THEN FailureOf(resp.body, fallback)
    ELSE IF resp.body = NotJson
           THEN Rejected("SyntaxError", "Unexpected token")
           ELSE Resolved(resp.body)

ApiFetchOutcome(resp) == OutcomeOf(resp, "Request failed")
LoginOutcome(resp)    == OutcomeOf(resp, "Login failed")
UploadOutcome(resp)   == OutcomeOf(resp, "Upload failed")

(***************************************************************************)
(* The api client on its own: any sequence of calls                        *)
(***************************************************************************)
TokenInit ==
    /\ localStorage \in StoredTokens
    /\ authToken = localStorage

\* no token, for the parts of the program that do not read it
TokenNone ==
    /\ localStorage = Null
    /\ authToken = Null

ApiIdle ==
    /\ lastSet = "none"
    /\ returned = "none"
    /\ apiReq = [via |-> "none"]
    /\ apiResp = [ok |-> TRUE, body |-> JNull]
    /\ apiRes = NoCall

\* AuthProvider before its first effect
AuthIdle ==
    /\ user = JNull
    /\ authLoading = TRUE
    /\ mounted = FALSE
    /\ pending = {}
    /\ sent = 0
    /\ loggedOut = FALSE
    /\ refreshed = [kind |-> "none"]

MaxRecorders == 2

\* useVoiceRecorder's initial state
RecIdle ==
    /\ isRecording = FALSE
    /\ audioBlob = SNull
    /\ audioBase64 = SNull
    /\ recError = Null
    /\ mediaRecorderRef = 0
    /\ chunksRef = <<>>
    /\ gumPending = 0
    /\ recorders = [k \in 1..MaxRecorders |-> "inactive"]
    /\ readers = <<>>
    /\ delivered = <<>>
    /\ audioFrom = <<>>
    /\ stopped = FALSE

\* HelpPage's initial state
HelpIdle ==
    /\ selectedProblem = <<>>
    /\ customProblem = <<>>
    /\ loading = FALSE
    /\ error = ""
    /\ reqs = <<>>
    /\ nav = <<>>
    /\ settled = [kind |-> "none"]
    /\ voiceSent = FALSE
    /\ submitClicked = FALSE

\* SuggestionsPage's initial state
SugIdle ==
    /\ conceptIdParam = Null
    /\ suggestions = JNull
    /\ concept = JNull
    /\ sugLoading = TRUE
    /\ sugError = ""
    /\ helpPosted = FALSE
    /\ feedbackContent = 0
    /\ sugMounted = FALSE
    /\ sugPending = FALSE
    /\ sugNav = <<>>

\* a handleSubmit of the upload page: none is running
NoJob == [phase |-> "idle"]

\* UploadPage's initial state, opened without a concept_id in its URL
UpIdle ==
    /\ selectedFile = Null
    /\ title = <<>>
    /\ conceptId = ""
    /\ upLoading = FALSE
    /\ upError = Null
    /\ cloudinaryReady = "null"
    /\ helpRequests = <<>>
    /\ loadingHelp = TRUE
    /\ selectedHelpRequestId = Null
    /\ upMounted = FALSE
    /\ upPending = {}
    /\ job = NoJob
    /\ calls = <<>>
    /\ upNav = <<>>

\* no feed: useState<Content[]>([])
NoFeed == [tab |-> "none", id |-> 0]

\* the initial state of a page with the community feed
FeedIdle ==
    /\ feedPage = "community"
    /\ activeTab = "all"
    /\ feed = NoFeed
    /\ feedLoading = TRUE
    /\ refreshing = FALSE
    /\ feedMounted = FALSE
    /\ feedReqs = {}
    /\ feedSent = 0
    /\ feedFailed = FALSE

\* the pages that are not open
\* LanguageProvider before its effect has run
LangIdle ==
    /\ language = "en"
    /\ translations = JObj(NoFields)
    /\ langMounted = FALSE
    /\ langLoads = {}
    /\ langSent = 0
    /\ langFailed = FALSE
    /\ tCall = [kind |-> "none"]

\* a number, as a value that can also be undefined
JNum(n) == [t |-> "number", n |-> n]

\* Header before it is mounted
HeadIdle ==
    /\ unreadCount = JNum(0)
    /\ headMounted = "no"
    /\ headInterval = FALSE
    /\ headReqs = {}
    /\ headSent = 0
    /\ headLast = [kind |-> "none"]

\* LoginPage's initial state
LoginIdle ==
    /\ phone = ""
    /\ password = ""
    /\ loginError = ""
    /\ loginLoading = FALSE
    /\ loginNav = <<>>
    /\ loginJob = [phase |-> "idle"]

\* HomePage's and ProfilePage's initial state
GuardIdle ==
    /\ guardPage = "home"
    /\ guardMounted = FALSE
    /\ guardNav = <<>>
    /\ points = "null"
    /\ guardReqs = {}
    /\ guardSent = 0

JBool(b) == [t |-> "boolean", b |-> b]

\* ContentDetailPage's initial state, before its effect has run
DetailFresh ==
    /\ cdContent = JNull
    /\ cdLoading = TRUE
    /\ cdError = Null
    /\ likesCount = JNum(0)
    /\ viewsCount = 0
    /\ userLiked = JBool(FALSE)
    /\ likeLoading = FALSE
    /\ cdMounted = FALSE
    /\ fetchReq = "none"
    /\ viewReq = "none"
    /\ likeReq = "none"

\* ContentDetailPage when it is not open
DetailIdle == contentId = Null /\ DetailFresh

MoreIdle == LangIdle /\ HeadIdle /\ LoginIdle /\ GuardIdle /\ DetailIdle

PagesIdle == SugIdle /\ UpIdle /\ FeedIdle /\ MoreIdle

ApiInit == TokenInit /\ ApiIdle /\ AuthIdle /\ RecIdle /\ HelpIdle /\ PagesIdle

CallSetAuthToken ==
    \E token \in Tokens \cup {"", Null} :
        /\ SetAuthToken(token)
        /\ lastSet' = token
        /\ returned' = "none"
        /\ UNCHANGED <<apiReq, apiResp, apiRes>>
        /\ OnlyApi

CallGetAuthToken ==
    /\ authToken' = GetAuthToken
    /\ returned' = GetAuthToken
    /\ UNCHANGED <<localStorage, lastSet, apiReq, apiResp, apiRes>>
    /\ OnlyApi

CallApiFetch ==
    \E optHeaders \in CallerHeaders, resp \in Responses :
        /\ authToken' = GetAuthToken
        /\ apiReq' = [via |-> "apiFetch", token |-> GetAuthToken,
                      given |-> optHeaders,
                      headers |-> ApiFetchHeaders(GetAuthToken, optHeaders)]
        /\ apiResp' = resp
        /\ apiRes' = ApiFetchOutcome(resp)
        /\ UNCHANGED <<localStorage, lastSet, returned>>
        /\ OnlyApi

CallLogin ==
    \E resp \in Responses :
        /\ apiReq' = [via |-> "login", token |-> GetAuthToken,
                      given |-> NoFields, headers |-> LoginHeaders]
        /\ apiResp' = resp
        /\ apiRes' = LoginOutcome(resp)
        /\ UNCHANGED <<tokenVars, lastSet, returned>>
        /\ OnlyApi

CallUpload ==
    \E via \in {"uploadFileToCloudinary", "uploadContentWithFile"},
       resp \in Responses :
        /\ authToken' = GetAuthToken
        /\ apiReq' = [via |-> via, token |-> GetAuthToken,
                      given |-> NoFields, headers |-> UploadHeaders(GetAuthToken)]
        /\ apiResp' = resp
        /\ apiRes' = UploadOutcome(resp)
        /\ UNCHANGED <<localStorage, lastSet, returned>>
        /\ OnlyApi

ApiNext ==
    \/ CallSetAuthToken
    \/ CallGetAuthToken
    \/ CallApiFetch
    \/ CallLogin
    \/ CallUpload

SpecApi == ApiInit /\ [][ApiNext]_vars

(***************************************************************************)
(* Properties of the api client                                            *)
(***************************************************************************)
ExpectedToken == IF Truthy(lastSet) THEN lastSet ELSE Null

\* C4: once setAuthToken has been called, getAuthToken returns the last
\* token passed to it if that token is non-empty and null if it was null or
\* empty, and localStorage's auth_token holds exactly that token (absent
\* when the result is null); a getAuthToken call made since returned it.
C4_TokenRoundTrip ==
    lastSet # "none" =>
        /\ GetAuthToken = ExpectedToken
        /\ localStorage = ExpectedToken
        /\ returned # "none" => returned = ExpectedToken

\* C4's case: setAuthToken('') left '' in memory, and getAuthToken then
\* returned null from the emptied localStorage
C4_Witness ==
    /\ lastSet = ""
    /\ returned = Null
    /\ localStorage = Null

HasAuthorization(req) == "Authorization" \in DOMAIN req.headers

\* C5: a request sent by apiFetch or by a file-upload call carries
\* Authorization: Bearer <token> exactly when getAuthToken() was non-null at
\* the call, whatever Authorization header the caller passed; without a token
\* nothing is added to the caller's headers; login() carries no
\* Authorization header.
C5_AuthorizationHeader ==
    /\ apiReq.via \in {"apiFetch", "uploadFileToCloudinary", "uploadContentWithFile"} =>
          /\ apiReq.token # Null <=>
                (/\ HasAuthorization(apiReq)
                 /\ apiReq.headers["Authorization"] = Bearer(apiReq.token))
          /\ apiReq.token = Null =>
                (HasAuthorization(apiReq) <=> "Authorization" \in DOMAIN apiReq.given)
    /\ apiReq.via = "login" => ~HasAuthorization(apiReq)

\* C5's case: apiFetch was called with a stored token and a caller-supplied
\* Authorization header
C5_Witness ==
    /\ apiReq.via = "apiFetch"
    /\ apiReq.token \in Tokens
    /\ "Authorization" \in DOMAIN apiReq.given

HasDetail(body) ==
    /\ body.t = "object"
    /\ "detail" \in DOMAIN body.v
    /\ JTruthy(body.v["detail"])

\* C6: for a non-OK response apiFetch rejects with an Error whose message is
\* the body's detail field when the body is JSON with a non-empty detail and
\* 'Request failed' otherwise; for an OK response whose body parses it
\* resolves with the parsed body.
C6_ApiFetchOutcome ==
    apiReq.via = "apiFetch" =>
        IF ~apiResp.ok
          THEN /\ apiRes.state = "rejected"
               /\ apiRes.name = "Error"
               /\ IF HasDetail(apiResp.body)
                    THEN /\ apiResp.body.v["detail"].t = "string"
                         /\ apiRes.message = apiResp.body.v["detail"].v
                    ELSE apiRes.message = "Request failed"
          ELSE apiResp.body # NotJson => apiRes = Resolved(apiResp.body)

(***************************************************************************)
(* AuthProvider (context/AuthContext)                                      *)
(***************************************************************************)
MaxRequests == 3

\* the teacher GET /auth/me returns for a token
Teacher(token) == JObj("id" :> JStr(token))

\* what the backend may answer to GET /auth/me sent with a token
MeResponses(token) ==
    { [ok |-> TRUE, body |-> Teacher(token)],
      [ok |-> FALSE, body |-> JObj("detail" :> JStr("Invalid token"))],
      [ok |-> FALSE, body |-> NotJson] }

\* refreshUser's promise without its catch: a rejection of getCurrentUser
\* is its own
RefreshUserUncaught(out) == out.state

\* refreshUser's promise: the try block ends, or the catch does
RefreshUserPromise(out) == "resolved"

\* a refreshUser call that found no token: it ends at once
RefreshedWithoutToken(userAfter, tokenAfter, storageAfter) ==
    [kind |-> "noToken", promise |-> "resolved", request |-> (sent' # sent),
     userBefore |-> user, userAfter |-> userAfter,
     tokenAfter |-> tokenAfter, storageAfter |-> storageAfter]

\* a refreshUser call whose getCurrentUser has settled with out
RefreshedWith(out, userAfter, tokenBefore, storageBefore, tokenAfter, storageAfter) ==
    [kind |-> out.state, promise |-> RefreshUserPromise(out), request |-> TRUE,
     value |-> IF out.state = "resolved" THEN out.value ELSE JNull,
     userBefore |-> user, userAfter |-> userAfter,
     tokenBefore |-> tokenBefore, storageBefore |-> storageBefore,
     tokenAfter |-> tokenAfter, storageAfter |-> storageAfter]

\* refreshUser up to its await: with a token, getCurrentUser() is sent
\* carrying it; origin names the caller that awaits the result
RefreshUserStart(origin) ==
    /\ authToken' = GetAuthToken
    /\ UNCHANGED localStorage
    /\ IF Truthy(GetAuthToken)
         THEN /\ sent < MaxRequests
              /\ pending' = pending \cup
                    {[id |-> sent + 1, origin |-> origin, token |-> GetAuthToken]}
              /\ sent' = sent + 1
              /\ UNCHANGED refreshed
         ELSE /\ UNCHANGED <<pending, sent>>
              /\ refreshed' = RefreshedWithoutToken(user, authToken', localStorage')

\* useEffect(() => { refreshUser().finally(() => setLoading(false)) }, [])
MountEffect ==
    /\ ~mounted
    /\ mounted' = TRUE
    /\ RefreshUserStart("mount")
    /\ authLoading' = IF Truthy(GetAuthToken) THEN authLoading ELSE FALSE
    /\ UNCHANGED <<user, loggedOut>>

\* the provider's first render
AuthMount ==
    /\ MountEffect
    /\ OnlyAuth

\* login(token): setAuthToken(token); await refreshUser()
Login(token) ==
    /\ mounted
    /\ SetAuthToken(token)
    /\ IF Truthy(token)
         THEN /\ sent < MaxRequests
              /\ pending' = pending \cup
                    {[id |-> sent + 1, origin |-> "login", token |-> token]}
              /\ sent' = sent + 1
              /\ UNCHANGED refreshed
         ELSE /\ UNCHANGED <<pending, sent>>
              /\ refreshed' = RefreshedWithoutToken(user, authToken', localStorage')
    /\ loggedOut' = FALSE
    /\ UNCHANGED <<user, authLoading, mounted>>

\* a page calls login with a token, or with none
AuthLogin ==
    \E token \in Tokens \cup {Null} :
        /\ Login(token)
        /\ OnlyAuth

\* a page calls refreshUser() (the language page, after its PATCH)
PageRefreshUser ==
    /\ mounted
    /\ RefreshUserStart("page")
    /\ UNCHANGED <<user, authLoading, mounted, loggedOut>>
    /\ OnlyAuth

\* logout(), from the profile page's handleLogout; the page renders its
\* button only when loading is false and user is set
Logout ==
    /\ ~authLoading
    /\ JTruthy(user)
    /\ SetAuthToken(Null)
    /\ user' = JNull
    /\ loggedOut' = TRUE
    /\ UNCHANGED <<authLoading, mounted, pending, sent, refreshed>>

\* the teacher logs out
AuthLogout ==
    /\ Logout
    /\ OnlyAuth

\* the finally of the mount effect after any refreshUser
AfterRefreshAny(r) == authLoading' = FALSE

\* what follows refreshUser for its caller: the mount effect's finally
AfterRefresh(r) ==
    authLoading' = IF r.origin = "mount" THEN FALSE ELSE authLoading

\* refreshUser after its await, for the request r answered with resp:
\* setUser(userData), or the catch
RefreshUserAfterAwait(r, resp) ==
    /\ pending' = pending \ {r}
    /\ IF ApiFetchOutcome(resp).state = "resolved"
         THEN /\ user' = ApiFetchOutcome(resp).value
              /\ UNCHANGED tokenVars
         ELSE /\ SetAuthToken(Null)
              /\ user' = JNull
    /\ refreshed' = RefreshedWith(ApiFetchOutcome(resp), user', authToken,
                                  localStorage, authToken', localStorage')
    /\ AfterRefresh(r)
    /\ UNCHANGED <<mounted, sent, loggedOut>>

\* a getCurrentUser request settles
RefreshUserSettle ==
    \E r \in pending :
      \E resp \in MeResponses(r.token) :
        /\ RefreshUserAfterAwait(r, resp)
        /\ OnlyAuth

AuthInit == TokenInit /\ ApiIdle /\ AuthIdle /\ RecIdle /\ HelpIdle /\ PagesIdle

AuthNext ==
    \/ AuthMount
    \/ AuthLogin
    \/ PageRefreshUser
    \/ AuthLogout
    \/ RefreshUserSettle

SpecAuth == AuthInit /\ [][AuthNext]_vars

\* what happens without the teacher: the mount effect runs, and a
\* getCurrentUser request gets its response
AuthFairness ==
    /\ WF_vars(AuthMount)
    /\ WF_vars(RefreshUserSettle)

SpecAuthFair == AuthInit /\ [][AuthNext]_vars /\ AuthFairness

(***************************************************************************)
(* Properties of AuthProvider                                              *)
(***************************************************************************)
TokenStored == Truthy(authToken) \/ Truthy(localStorage)

\* C7: after logout() has run and until login() is next called, user is
\* null and no auth token is stored, in memory or in localStorage, whenever
\* the requests started before the logout complete.
C7_LoggedOutStaysLoggedOut ==
    loggedOut => (user = JNull /\ ~TokenStored)

\* loading changes only from true to false, and only once the refreshUser
\* of the mount effect is over
LoadingStep ==
    authLoading' # authLoading
    => /\ authLoading /\ ~authLoading'
       /\ mounted'
       /\ \A r \in pending' : r.origin # "mount"

\* C17: loading is true at first, becomes false only after the refreshUser
\* of the mount effect has settled, never becomes true again, and does
\* become false, the getCurrentUser request settling.
C17_Loading ==
    /\ [](~mounted => authLoading)
    /\ [][LoadingStep]_vars
    /\ <>[](~authLoading)

\* loading has become false after the user was fetched
C17_Witness ==
    /\ ~authLoading
    /\ refreshed.kind = "resolved"
    /\ JTruthy(user)
    /\ pending = {}

\* C18: refreshUser never rejects; without a token it sends no request and
\* leaves user as it is; when getCurrentUser resolves, user is the teacher
\* returned and the token is as before; when getCurrentUser rejects, the
\* stored token is cleared and user is null.
C18_RefreshUserCases ==
    refreshed.kind # "none" =>
        /\ refreshed.promise = "resolved"
        /\ refreshed.kind = "noToken" =>
              /\ ~refreshed.request
              /\ refreshed.userAfter = refreshed.userBefore
        /\ refreshed.kind = "resolved" =>
              /\ refreshed.userAfter = refreshed.value
              /\ refreshed.tokenAfter = refreshed.tokenBefore
              /\ refreshed.storageAfter = refreshed.storageBefore
        /\ refreshed.kind = "rejected" =>
              /\ refreshed.userAfter = JNull
              /\ refreshed.tokenAfter = Null
              /\ refreshed.storageAfter = Null

\* a refreshUser has ended in its catch
C18_Witness ==
    /\ refreshed.kind = "rejected"
    /\ refreshed.tokenBefore # Null
    /\ user = JNull
    /\ ~TokenStored

(***************************************************************************)
(* hooks/useVoiceRecorder                                                  *)
(***************************************************************************)
MaxChunks == 2

\* the data of a dataavailable event: a Blob, as its bytes
ChunkData == {<<>>, <<"x">>}

\* what a recorder may deliver when it stops
LastChunk == {<<>>, <<"z">>}

RECURSIVE Flatten(_)
\* new Blob(chunks): the chunks' bytes, in order
Flatten(chunks) ==
    IF chunks = <<>> THEN <<>> ELSE Head(chunks) \o Flatten(Tail(chunks))

\* the base64 text of a byte (an injective code; base64 has no comma)
Base64Digit == [x |-> "eA", z |-> "eg"]

\* reader.readAsDataURL(blob): reader.result
DataUrl(blob) ==
    <<"data:audio/webm;base64", ",">> \o [i \in 1..Len(blob) |-> Base64Digit[blob[i]]]

RECURSIVE UpToComma(_)
UpToComma(s) ==
    IF s = <<>> \/ Head(s) = "," THEN <<>> ELSE <<Head(s)>> \o UpToComma(Tail(s))

RECURSIVE AfterComma(_)
AfterComma(s) ==
    IF s = <<>> THEN SNull
    ELSE IF Head(s) = "," THEN Tail(s) ELSE AfterComma(Tail(s))

\* s.split(',')[1]
SplitSecond(s) ==
    IF AfterComma(s) = SNull THEN SNull ELSE UpToComma(AfterComma(s))

\* (reader.result as string).split(',')[1]
Base64Of(blob) == SplitSecond(DataUrl(blob))

\* ondataavailable as a slip would have it: every chunk is kept
OnDataAvailableKeepsEmpty(chunks, data) == Append(chunks, data)

\* ondataavailable: if (event.data.size > 0) chunksRef.current.push(event.data)
OnDataAvailable(chunks, data) ==
    IF Len(data) > 0 THEN Append(chunks, data) ELSE chunks

\* the history: a non-empty chunk was delivered
Delivered(data) == IF data # <<>> THEN Append(delivered, data) ELSE delivered

\* recorders recording or stopping, getUserMedia calls pending and blobs
\* being read: what a recording still has to go through
Live == Cardinality({k \in 1..MaxRecorders : recorders[k] # "inactive"})
      + gumPending + Len(readers)

RemoveAt(seq, i) == SubSeq(seq, 1, i - 1) \o SubSeq(seq, i + 1, Len(seq))

\* startRecording as a slip would have it: it clears the last recording
StartRecordingClears ==
    /\ nav = <<>>
    /\ ~loading
    /\ ~isRecording
    /\ Live < MaxRecorders
    /\ recError' = Null
    /\ chunksRef' = <<>>
    /\ delivered' = <<>>
    /\ gumPending' = gumPending + 1
    /\ audioBlob' = SNull
    /\ audioBase64' = SNull
    /\ UNCHANGED <<isRecording, mediaRecorderRef, recorders, readers, audioFrom,
                   stopped>>
    /\ UNCHANGED helpVars
    /\ OnlyHelp

\* startRecording up to its await; VoiceButton calls it when isRecording is
\* false and is disabled while the page is loading
StartRecording ==
    /\ nav = <<>>
    /\ ~loading
    /\ ~isRecording
    /\ Live < MaxRecorders
    /\ recError' = Null
    /\ chunksRef' = <<>>
    /\ delivered' = <<>>
    /\ gumPending' = gumPending + 1
    /\ UNCHANGED <<isRecording, audioBlob, audioBase64, mediaRecorderRef,
                   recorders, readers, audioFrom, stopped>>
    /\ UNCHANGED helpVars
    /\ OnlyHelp

\* getUserMedia resolves: the recorder is made and started
GetUserMediaResolves ==
    /\ nav = <<>>
    /\ gumPending > 0
    /\ LET k == CHOOSE j \in 1..MaxRecorders :
                  /\ recorders[j] = "inactive"
                  /\ \A i \in 1..(j - 1) : recorders[i] # "inactive"
       IN  /\ recorders' = [recorders EXCEPT ![k] = "recording"]
           /\ mediaRecorderRef' = k
    /\ isRecording' = TRUE
    /\ gumPending' = gumPending - 1
    /\ UNCHANGED <<audioBlob, audioBase64, recError, chunksRef, readers,
                   delivered, audioFrom, stopped>>
    /\ UNCHANGED helpVars
    /\ OnlyHelp

\* getUserMedia rejects, or MediaRecorder throws: the catch
GetUserMediaRejects ==
    /\ nav = <<>>
    /\ gumPending > 0
    /\ gumPending' = gumPending - 1
    /\ recError' = "Microphone access denied. Please allow microphone access."
    /\ UNCHANGED <<isRecording, audioBlob, audioBase64, mediaRecorderRef, chunksRef,
                   recorders, readers, delivered, audioFrom, stopped>>
    /\ UNCHANGED helpVars
    /\ OnlyHelp

\* a recorder delivers a chunk while recording
DataAvailable ==
    \E k \in 1..MaxRecorders, data \in ChunkData :
        /\ nav = <<>>
        /\ recorders[k] = "recording"
        /\ Len(chunksRef) < MaxChunks
        /\ chunksRef' = OnDataAvailable(chunksRef, data)
        /\ delivered' = Delivered(data)
        /\ UNCHANGED <<isRecording, audioBlob, audioBase64, recError, mediaRecorderRef,
                       gumPending, recorders, readers, audioFrom, stopped>>
        /\ UNCHANGED helpVars
        /\ OnlyHelp

\* stopRecording; VoiceButton calls it when isRecording is true
StopRecording ==
    /\ nav = <<>>
    /\ ~loading
    /\ isRecording
    /\ IF mediaRecorderRef # 0 /\ isRecording
         THEN /\ recorders' = [recorders EXCEPT ![mediaRecorderRef] = "stopping"]
              /\ isRecording' = FALSE
         ELSE UNCHANGED <<recorders, isRecording>>
    /\ UNCHANGED <<audioBlob, audioBase64, recError, mediaRecorderRef, chunksRef,
                   gumPending, readers, delivered, audioFrom, stopped>>
    /\ UNCHANGED helpVars
    /\ OnlyHelp

\* a stopped recorder's task: its last dataavailable event, then onstop,
\* which builds the blob and starts reading it
RecorderStops ==
    \E k \in 1..MaxRecorders, data \in LastChunk :
        /\ nav = <<>>
        /\ recorders[k] = "stopping"
        /\ data # <<>> => Len(chunksRef) < MaxChunks
        /\ chunksRef' = OnDataAvailable(chunksRef, data)
        /\ delivered' = Delivered(data)
        /\ audioBlob' = Flatten(chunksRef')
        /\ readers' = Append(readers, [blob |-> Flatten(chunksRef'),
                                       expected |-> delivered'])
        /\ recorders' = [recorders EXCEPT ![k] = "inactive"]
        /\ stopped' = TRUE
        /\ UNCHANGED <<isRecording, audioBase64, recError, mediaRecorderRef,
                       gumPending, audioFrom>>
        /\ UNCHANGED helpVars
        /\ OnlyHelp

\* reader.onloadend: setAudioBase64((reader.result as string).split(',')[1])
OnLoadEnd(i) ==
    /\ audioBase64' = Base64Of(readers[i].blob)
    /\ audioFrom' = readers[i].expected
    /\ readers' = RemoveAt(readers, i)

\* the hook on its own: a blob has been read
RecorderLoadEnd ==
    \E i \in 1..Len(readers) :
        /\ OnLoadEnd(i)
        /\ UNCHANGED <<isRecording, audioBlob, recError, mediaRecorderRef, chunksRef,
                       gumPending, recorders, delivered, stopped>>
        /\ UNCHANGED helpVars
        /\ OnlyHelp

RecorderInit == TokenNone /\ ApiIdle /\ AuthIdle /\ RecIdle /\ HelpIdle /\ PagesIdle

\* the hook under any order of clicks and browser events
RecorderNext ==
    \/ StartRecording
    \/ GetUserMediaResolves
    \/ GetUserMediaRejects
    \/ DataAvailable
    \/ StopRecording
    \/ RecorderStops
    \/ RecorderLoadEnd

SpecRecorder == RecorderInit /\ [][RecorderNext]_vars

\* C3: audioBase64 is set only after a started recorder has been stopped, and
\* the audio is built from exactly the non-empty chunks delivered since the
\* startRecording call before it, in the order they arrived; a zero-size
\* chunk is never kept.
C3_AudioFromDeliveredChunks ==
    /\ chunksRef = delivered
    /\ \A i \in 1..Len(chunksRef) : Len(chunksRef[i]) > 0
    /\ \A i \in 1..Len(readers) :
          /\ readers[i].blob = Flatten(readers[i].expected)
          /\ stopped
    /\ audioBase64 # SNull =>
          /\ stopped
          /\ audioBase64 = Base64Of(Flatten(audioFrom))
          /\ \A i \in 1..Len(audioFrom) : Len(audioFrom[i]) > 0

\* a recording of two chunks has been encoded
C3_Witness ==
    /\ audioFrom = << <<"x">>, <<"z">> >>
    /\ audioBase64 = <<"eA", "eg">>

(***************************************************************************)
(* app/help/page.tsx                                                       *)
(***************************************************************************)
\* two of problemCategories' four ids
Categories == {"CLASSROOM_DISCIPLINE", "OTHER"}

\* what the textarea may hold
Texts == {<<>>, <<" ">>, <<" ", "a", " ">>}

RECURSIVE TrimStart(_)
TrimStart(s) == IF s # <<>> /\ Head(s) = " " THEN TrimStart(Tail(s)) ELSE s

RECURSIVE TrimEnd(_)
TrimEnd(s) ==
    IF s # <<>> /\ s[Len(s)] = " " THEN TrimEnd(SubSeq(s, 1, Len(s) - 1)) ELSE s

\* s.trim()
Trim(s) == TrimEnd(TrimStart(s))

\* encodeURIComponent(s)
EncodeURIComponent(s) == [i \in 1..Len(s) |-> IF s[i] = " " THEN "%20" ELSE s[i]]

\* the request data as a slip would build it: typed text before the audio
RequestDataTextFirst(audio, selected, custom) ==
    IF STruthy(selected) /\ STruthy(custom)
      THEN [query_text |-> custom, request_type |-> "text", category |-> selected]
    ELSE IF STruthy(audio)
      THEN IF STruthy(selected)
             THEN [audio_base64 |-> audio, request_type |-> "voice",
                   category |-> selected]
             ELSE [audio_base64 |-> audio, request_type |-> "voice"]
    ELSE IF STruthy(selected)
      THEN [query_text |-> selected, request_type |-> "predefined",
            category |-> selected]
    ELSE [query_text |-> custom, request_type |-> "text"]

\* handleSubmit's requestData, as JSON.stringify sends it (a field that is
\* undefined is left out)
RequestData(audio, selected, custom) ==
    IF STruthy(audio)
      THEN IF STruthy(selected)
             THEN [audio_base64 |-> audio, request_type |-> "voice",
                   category |-> selected]
             ELSE [audio_base64 |-> audio, request_type |-> "voice"]
    ELSE IF STruthy(selected) /\ STruthy(custom)
      THEN [query_text |-> custom, request_type |-> "text", category |-> selected]
    ELSE IF STruthy(selected)
      THEN [query_text |-> selected, request_type |-> "predefined",
            category |-> selected]
    ELSE [query_text |-> custom, request_type |-> "text"]

\* handleSubmit up to its await as a slip would have it: the validation
\* returns without setLoading(false)
HandleSubmitKeepsLoading(audio, selected, custom) ==
    LET queryText == IF STruthy(selected) THEN selected ELSE custom
    IN  /\ settled' = [kind |-> "none"]
        /\ loading' = TRUE
        /\ IF Trim(queryText) = <<>> /\ ~STruthy(audio)
             THEN /\ error' = "help.selectProblemError"
                  /\ UNCHANGED <<reqs, voiceSent>>
             ELSE /\ error' = ""
                  /\ reqs' = Append(reqs,
                        [data |-> RequestData(audio, selected, custom),
                         cap |-> [audio |-> audio, selected |-> selected,
                                  custom |-> custom]])
                  /\ voiceSent' = (STruthy(audio) \/ voiceSent)

\* handleSubmit up to its await, with the values of the render it runs in
HandleSubmit(audio, selected, custom) ==
    LET queryText == IF STruthy(selected) THEN selected ELSE custom
    IN  /\ settled' = [kind |-> "none"]
        /\ IF Trim(queryText) = <<>> /\ ~STruthy(audio)
             THEN /\ error' = "help.selectProblemError"
                  /\ loading' = FALSE
                  /\ UNCHANGED <<reqs, voiceSent>>
             ELSE /\ error' = ""
                  /\ loading' = TRUE
                  /\ reqs' = Append(reqs,
                        [data |-> RequestData(audio, selected, custom),
                         cap |-> [audio |-> audio, selected |-> selected,
                                  custom |-> custom]])
                  /\ voiceSent' = (STruthy(audio) \/ voiceSent)

\* a category button: select it, or deselect it when it is selected
SelectProblem ==
    \E c \in Categories :
        /\ nav = <<>>
        /\ selectedProblem' = IF selectedProblem = <<c>> THEN <<>> ELSE <<c>>
        /\ UNCHANGED <<customProblem, loading, error, reqs, nav, settled, voiceSent,
                     submitClicked>>
        /\ UNCHANGED recVars
        /\ OnlyHelp

\* the textarea's onChange
TypeProblem ==
    \E text \in Texts :
        /\ nav = <<>>
        /\ text # customProblem
        /\ customProblem' = text
        /\ UNCHANGED <<selectedProblem, loading, error, reqs, nav, settled, voiceSent,
                     submitClicked>>
        /\ UNCHANGED recVars
        /\ OnlyHelp

\* the submit button, disabled while loading or while nothing is given
ClickSubmit ==
    /\ nav = <<>>
    /\ ~(loading \/ (~STruthy(selectedProblem) /\ Trim(customProblem) = <<>>
                     /\ ~STruthy(audioBase64)))
    /\ HandleSubmit(audioBase64, selectedProblem, customProblem)
    /\ submitClicked' = TRUE
    /\ UNCHANGED <<selectedProblem, customProblem, nav>>
    /\ UNCHANGED recVars
    /\ OnlyHelp

\* the effect's condition as a slip would have it: loading is not looked at
EffectSubmitsAnyway(audio, isLoading) == STruthy(audio)

\* the effect's condition: if (audioBase64 && !loading)
EffectSubmits(audio, isLoading) == STruthy(audio) /\ ~isLoading

\* the FileReader's onloadend sets audioBase64; in the render that follows,
\* the effect on [audioBase64] submits if there is audio and no loading
ReaderLoadEnd ==
    \E i \in 1..Len(readers) :
        /\ nav = <<>>
        /\ OnLoadEnd(i)
        /\ IF audioBase64' # audioBase64 /\ EffectSubmits(audioBase64', loading)
             THEN /\ HandleSubmit(audioBase64', selectedProblem, customProblem)
                  /\ submitClicked' = FALSE
             ELSE /\ voiceSent' = (audioBase64' = audioBase64 /\ voiceSent)
                  /\ UNCHANGED <<loading, error, reqs, settled, submitClicked>>
        /\ UNCHANGED <<selectedProblem, customProblem, nav>>
        /\ UNCHANGED <<isRecording, audioBlob, recError, mediaRecorderRef, chunksRef,
                       gumPending, recorders, delivered, stopped>>
        /\ OnlyHelp

\* what POST /help/request may answer
HelpResponses ==
    { [ok |-> TRUE, body |-> JObj(("concept_id" :> JStr("CLASSROOM_DISCIPLINE"))
                                  @@ ("detected_language" :> JStr("hi")))],
      [ok |-> TRUE, body |-> JObj("concept_id" :> JStr("PHOTOSYNTHESIS"))],
      [ok |-> TRUE, body |-> JObj("concept_id" :> JStr(""))],
      [ok |-> TRUE, body |-> JObj("id" :> JStr("h1"))],
      [ok |-> FALSE, body |-> JObj("detail" :> JStr("Invalid token"))],
      [ok |-> FALSE, body |-> NotJson] }

\* `/suggestions?concept_id=${...}&summary=${encodeURIComponent(...)}${langParam}`
SuggestionsUrl(helpRequest, summary) ==
    <<"/suggestions?concept_id=", JsString(Field(helpRequest, "concept_id")),
      "&summary=", EncodeURIComponent(summary)>>
    \o (IF JTruthy(Field(helpRequest, "detected_language"))
          THEN <<"&lang=", JsString(Field(helpRequest, "detected_language"))>>
          ELSE <<>>)

\* the page after the await as a slip would have it: it navigates on any
\* resolved response
AfterHelpRequestNoCheck(out, cap) ==
    IF out.state = "resolved"
      THEN /\ nav' = SuggestionsUrl(out.value,
                        IF STruthy(cap.custom) THEN cap.custom ELSE cap.selected)
           /\ UNCHANGED error
      ELSE /\ error' = out.message
           /\ UNCHANGED nav

\* handleSubmit after its await: router.push on a concept_id, else setError;
\* the catch sets the rejection's message
AfterHelpRequest(out, cap) ==
    IF out.state = "resolved"
      THEN IF JTruthy(Field(out.value, "concept_id"))
             THEN /\ nav' = SuggestionsUrl(out.value,
                              IF STruthy(cap.custom) THEN cap.custom ELSE cap.selected)
                  /\ UNCHANGED error
             ELSE /\ error' = "help.submitError"
                  /\ UNCHANGED nav
      ELSE /\ error' = out.message
           /\ UNCHANGED nav

\* a createHelpRequest call settles; finally: setLoading(false)
HelpRequestSettles ==
    \E i \in 1..Len(reqs), resp \in HelpResponses :
        /\ reqs' = RemoveAt(reqs, i)
        /\ settled' = [kind |-> "response", resp |-> resp]
        /\ AfterHelpRequest(ApiFetchOutcome(resp), reqs[i].cap)
        /\ loading' = FALSE
        /\ UNCHANGED <<selectedProblem, customProblem, voiceSent, submitClicked>>
        /\ UNCHANGED recVars
        /\ OnlyHelp

HelpInit == TokenNone /\ ApiIdle /\ AuthIdle /\ RecIdle /\ HelpIdle /\ PagesIdle

\* the page with its recorder; start() is called without a timeslice, so a
\* recorder delivers its data when it stops
HelpNext ==
    \/ StartRecording
    \/ GetUserMediaResolves
    \/ GetUserMediaRejects
    \/ StopRecording
    \/ RecorderStops
    \/ ReaderLoadEnd
    \/ SelectProblem
    \/ TypeProblem
    \/ ClickSubmit
    \/ HelpRequestSettles

SpecHelp == HelpInit /\ [][HelpNext]_vars

\* what happens without the teacher: the browser answers getUserMedia, a
\* stopped recorder fires onstop, a FileReader finishes reading, and a
\* request gets its response
HelpFairness ==
    /\ WF_vars(GetUserMediaResolves \/ GetUserMediaRejects)
    /\ WF_vars(RecorderStops)
    /\ WF_vars(ReaderLoadEnd)
    /\ WF_vars(HelpRequestSettles)

SpecHelpFair == HelpInit /\ [][HelpNext]_vars /\ HelpFairness

\* what is present in a render's values
HasAudio(cap) == cap.audio # SNull /\ cap.audio # <<>>
HasCategory(cap) == cap.selected # <<>>
HasText(cap) == cap.custom # <<>>

\* the payload the four cases give
ExpectedPayload(cap) ==
    CASE HasAudio(cap) /\ HasCategory(cap) ->
           [audio_base64 |-> cap.audio, request_type |-> "voice",
            category |-> cap.selected]
      [] HasAudio(cap) /\ ~HasCategory(cap) ->
           [audio_base64 |-> cap.audio, request_type |-> "voice"]
      [] ~HasAudio(cap) /\ HasCategory(cap) /\ HasText(cap) ->
           [query_text |-> cap.custom, request_type |-> "text",
            category |-> cap.selected]
      [] ~HasAudio(cap) /\ HasCategory(cap) /\ ~HasText(cap) ->
           [query_text |-> cap.selected, request_type |-> "predefined",
            category |-> cap.selected]
      [] ~HasAudio(cap) /\ ~HasCategory(cap) /\ HasText(cap) ->
           [query_text |-> cap.custom, request_type |-> "text"]

\* C1: every createHelpRequest call of handleSubmit is made with at least one
\* of audio, category and text present, and its payload is: with audio, the
\* audio as 'voice' with the category if one is selected; without audio, the
\* typed text as 'text' with the category, or the category id as
\* 'predefined', or the typed text as 'text' without a category.
C1_HelpPayload ==
    \A i \in 1..Len(reqs) :
        /\ HasAudio(reqs[i].cap) \/ HasCategory(reqs[i].cap) \/ HasText(reqs[i].cap)
        /\ reqs[i].data = ExpectedPayload(reqs[i].cap)

\* a voice request is in flight that was sent with a category selected and
\* text typed
C1_Witness ==
    \E i \in 1..Len(reqs) :
        /\ reqs[i].data.request_type = "voice"
        /\ HasCategory(reqs[i].cap)
        /\ HasText(reqs[i].cap)

\* the response came with a non-empty concept_id
HasConceptId(resp) ==
    /\ resp.ok
    /\ resp.body.t = "object"
    /\ "concept_id" \in DOMAIN resp.body.v
    /\ resp.body.v["concept_id"].t = "string"
    /\ resp.body.v["concept_id"].v # ""

\* C2: the page has navigated only if createHelpRequest resolved with a
\* non-empty concept_id, and the URL's concept_id is the one returned; after a
\* response without a concept_id or a rejection the page has not navigated and
\* shows an error.
C2_NavigateOnlyOnConceptId ==
    /\ nav # <<>> =>
          /\ settled.kind = "response"
          /\ HasConceptId(settled.resp)
          /\ nav[1] = "/suggestions?concept_id="
          /\ nav[2] = settled.resp.body.v["concept_id"].v
    /\ (settled.kind = "response" /\ ~HasConceptId(settled.resp)) =>
          /\ nav = <<>>
          /\ error # ""
          /\ ~loading

\* the page has navigated to the suggestions of a returned concept_id
C2_Witness ==
    /\ nav # <<>>
    /\ settled.kind = "response"
    /\ nav[2] = "PHOTOSYNTHESIS"
\* C16: audio that the page holds and has not sent in a voice request leads
\* to a voice request with it, without the submit button being pressed,
\* also when a submission is in progress at the time the audio comes (the
\* page having gone to the suggestions counts as well).
C16_AudioEventuallySent ==
    (STruthy(audioBase64) /\ ~voiceSent /\ nav = <<>>)
        ~> (voiceSent \/ nav # <<>>)


\* at most one createHelpRequest is in flight, and loading is true exactly
\* while one is
OneInFlight ==
    /\ Len(reqs) <= 1
    /\ loading <=> Len(reqs) = 1

\* while loading is true no step sends a request, starts a recording or
\* stops one
NothingWhileLoading ==
    loading =>
        /\ Len(reqs') <= Len(reqs)
        /\ gumPending' <= gumPending
        /\ \A k \in 1..MaxRecorders :
              recorders'[k] = "stopping" => recorders[k] = "stopping"

\* C22: at most one createHelpRequest is in flight at any time, under any
\* interleaving of submit-button clicks, voice-button clicks and the
\* auto-submit effect: the buttons do nothing while loading is true and the
\* effect sends nothing while loading is true.
C22_OneInFlight == []OneInFlight /\ [][NothingWhileLoading]_vars

\* a recording's audio has arrived while a text request was in flight, and
\* that request is still the only one
C22_Witness ==
    /\ loading
    /\ Len(reqs) = 1
    /\ reqs[1].data.request_type = "text"
    /\ STruthy(audioBase64)
    /\ audioBase64 # reqs[1].cap.audio

\* audio the page holds stays: a step leaves audioBase64 a recording
AudioKept == STruthy(audioBase64) => STruthy(audioBase64')

\* a request sent in a render that holds audio is a voice request with that
\* audio and without query_text
VoiceWhileAudio ==
    (Len(reqs') > Len(reqs) /\ STruthy(audioBase64')) =>
        LET data == reqs'[Len(reqs')].data
        IN  /\ data.request_type = "voice"
            /\ data.audio_base64 = audioBase64'
            /\ "query_text" \notin DOMAIN data

\* C23: a recorded audioBase64 is never cleared once set, so every
\* submission made after a recording has finished, also one made by typing
\* text or selecting a category after a failed voice request, sends the most
\* recent recording as 'voice' and omits the typed query_text.
C23_AudioSticks == [][AudioKept /\ VoiceWhileAudio]_vars

\* audioBase64 changes only when a recording has been read, and never back
\* to null
AudioReplaced ==
    audioBase64' # audioBase64 =>
        /\ Len(readers') < Len(readers)
        /\ audioBase64' # SNull

\* C23 as the code has it: audioBase64 is never reset to null and changes
\* only when a later recording has been read; while it is non-empty, every
\* submission sends it as 'voice' and omits the typed query_text.  (A later
\* recording without data replaces it with the empty string.)
C23_AudioSticksUnlessEmpty == [][AudioReplaced /\ VoiceWhileAudio]_vars

\* the submit button was pressed with text typed while the page held a
\* recording: the request in flight is a voice request without the text
C23_Witness ==
    /\ submitClicked
    /\ Len(reqs) = 1
    /\ reqs[1].cap.custom = <<" ", "a", " ">>
    /\ reqs[1].data.request_type = "voice"
    /\ "query_text" \notin DOMAIN reqs[1].data

(***************************************************************************)
(* handleSubmit as a function: called in any render of the page             *)
(***************************************************************************)
MaxSubmits == 2

\* a recording that has been read: its chunks and what onloadend set
Recordings ==
    { [chunks |-> <<>>, base64 |-> <<>>],
      [chunks |-> << <<"x">> >>, base64 |-> <<"eA">>] }

\* the page before any recording
NeverRecorded == RecIdle

\* the page after one recording has been made, stopped and read
RecordedOnce ==
    \E rec \in Recordings :
        /\ isRecording = FALSE
        /\ audioBlob = Flatten(rec.chunks)
        /\ audioBase64 = rec.base64
        /\ recError = Null
        /\ mediaRecorderRef = 1
        /\ chunksRef = rec.chunks
        /\ gumPending = 0
        /\ recorders = [k \in 1..MaxRecorders |-> "inactive"]
        /\ readers = <<>>
        /\ delivered = rec.chunks
        /\ audioFrom = rec.chunks
        /\ stopped = TRUE

\* a render of the page: a category selected or not, any text typed, audio
\* recorded or not, and nothing submitted yet
SubmitInit ==
    /\ TokenNone /\ ApiIdle /\ AuthIdle /\ PagesIdle
    /\ NeverRecorded \/ RecordedOnce
    /\ selectedProblem \in {<<>>} \cup {<<c>> : c \in Categories}
    /\ customProblem \in Texts
    /\ loading = FALSE
    /\ error = ""
    /\ reqs = <<>>
    /\ nav = <<>>
    /\ settled = [kind |-> "none"]
    /\ voiceSent = FALSE
    /\ submitClicked = FALSE

\* handleSubmit is called with the values of the current render, whatever
\* the buttons show
RunHandleSubmit ==
    /\ nav = <<>>
    /\ Len(reqs) < MaxSubmits
    /\ HandleSubmit(audioBase64, selectedProblem, customProblem)
    /\ UNCHANGED <<selectedProblem, customProblem, nav, submitClicked>>
    /\ UNCHANGED recVars
    /\ OnlyHelp

SubmitNext ==
    \/ RunHandleSubmit
    \/ HelpRequestSettles

SpecSubmit == SubmitInit /\ [][SubmitNext]_vars

\* nothing is given: no category, no text but whitespace, no audio
NothingGiven ==
    /\ ~STruthy(selectedProblem)
    /\ Trim(customProblem) = <<>>
    /\ ~STruthy(audioBase64)

\* a call of handleSubmit with nothing given sends nothing, sets the error
\* and leaves loading false; a call that ends, by the validation or by its
\* request settling, leaves loading false
SubmitCompletes ==
    /\ (RunHandleSubmit /\ NothingGiven) =>
          /\ reqs' = reqs
          /\ error' = "help.selectProblemError"
          /\ ~loading'
    /\ (RunHandleSubmit /\ reqs' = reqs) => ~loading'
    /\ Len(reqs') < Len(reqs) => ~loading'

\* C21: when handleSubmit runs with no category selected, typed text that is
\* empty or only whitespace and no recorded audio, it sends no request, sets
\* the 'select a problem' error and leaves loading false; and after every
\* completed handleSubmit (validation failure, success, missing concept_id,
\* rejected request) loading is false.
C21_SubmitCompletes == [][SubmitCompletes]_vars

\* handleSubmit has run with only whitespace typed: the error is shown,
\* nothing was sent and loading is false
C21_Witness ==
    /\ customProblem = <<" ">>
    /\ selectedProblem = <<>>
    /\ ~STruthy(audioBase64)
    /\ error = "help.selectProblemError"
    /\ reqs = <<>>
    /\ ~loading


(***************************************************************************)
(* app/suggestions/page.tsx                                                *)
(***************************************************************************)
\* SuggestionResponse.source
Sources == {"internal", "external_fallback", "google_search"}

\* a Content, by the fields the page reads
Contents == [id : {"c1"}, source_type : {"internal", "external"}, is_verified : BOOLEAN]

\* SuggestionResponse.suggestions
ContentLists == {<<>>} \cup {<<a>> : a \in Contents}
                \cup {<<a, b>> : a \in Contents, b \in Contents}

\* what GET /suggestions may answer
SuggestionResponses ==
    { [ok |-> TRUE, body |-> JObj(("source" :> JStr(src)) @@ ("suggestions" :> JArr(list)))] :
        src \in Sources, list \in ContentLists }
    \cup { [ok |-> FALSE, body |-> JObj("detail" :> JStr("Concept not found"))] }

\* what GET /concepts/{id} may answer
ConceptResponses ==
    { [ok |-> TRUE, body |-> JObj("description_en" :> JStr("Photosynthesis"))],
      [ok |-> FALSE, body |-> NotJson] }

\* the effect on [conceptId, router]: without a concept_id, router.push('/help');
\* else getSuggestions and getConcept are sent
SugMount ==
    /\ ~sugMounted
    /\ sugMounted' = TRUE
    /\ IF ~Truthy(conceptIdParam)
         THEN /\ sugNav' = <<"/help">>
              /\ UNCHANGED sugPending
         ELSE /\ sugPending' = TRUE
              /\ UNCHANGED sugNav
    /\ UNCHANGED <<conceptIdParam, suggestions, concept, sugLoading, sugError,
                   helpPosted, feedbackContent>>
    /\ OnlySug

\* Promise.all([...]) settles: then sets both, catch sets the error of the
\* request that rejected; finally: setLoading(false)
SuggestionsSettle ==
    \E sr \in SuggestionResponses, cr \in ConceptResponses :
        /\ sugPending
        /\ sugPending' = FALSE
        /\ LET so == ApiFetchOutcome(sr)
               co == ApiFetchOutcome(cr)
           IN  IF so.state = "resolved" /\ co.state = "resolved"
                 THEN /\ suggestions' = so.value
                      /\ concept' = co.value
                      /\ UNCHANGED sugError
                 ELSE /\ sugError' = IF so.state = "rejected" THEN so.message
                                     ELSE co.message
                      /\ UNCHANGED <<suggestions, concept>>
        /\ sugLoading' = FALSE
        /\ UNCHANGED <<conceptIdParam, helpPosted, feedbackContent, sugMounted, sugNav>>
        /\ OnlySug

\* the page renders its content once loading is false
SugRendered == sugMounted /\ ~sugLoading /\ sugNav = <<>>

\* the External Content Warning is rendered:
\* suggestions?.source === 'external_fallback' || ... === 'google_search'
BannerRendered ==
    /\ SugRendered
    /\ \/ Field(suggestions, "source") = JStr("external_fallback")
       \/ Field(suggestions, "source") = JStr("google_search")

\* the SolutionCards rendered: suggestions.suggestions, when not empty
RenderedCards ==
    IF SugRendered /\ JTruthy(suggestions)
         /\ Len(Field(suggestions, "suggestions").v) > 0
      THEN Field(suggestions, "suggestions").v
      ELSE <<>>

\* 'Post to Help Needed', in the warning and in the empty list
PostHelpNeeded ==
    /\ SugRendered
    /\ BannerRendered \/ RenderedCards = <<>>
    /\ ~helpPosted
    /\ helpPosted' = TRUE
    /\ UNCHANGED <<conceptIdParam, suggestions, concept, sugLoading, sugError,
                   feedbackContent, sugMounted, sugPending, sugNav>>
    /\ OnlySug

\* a card's button: 'View Content' of an internal item goes to its page,
\* 'Try in next class' of another opens the feedback modal
CardButton ==
    \E i \in 1..Len(RenderedCards) :
        /\ IF RenderedCards[i].source_type = "internal"
             THEN /\ sugNav' = <<"/content/", RenderedCards[i].id>>
                  /\ UNCHANGED feedbackContent
             ELSE /\ feedbackContent' = i
                  /\ UNCHANGED sugNav
        /\ UNCHANGED <<conceptIdParam, suggestions, concept, sugLoading, sugError,
                       helpPosted, sugMounted, sugPending>>
        /\ OnlySug

\* the modal's onClose
CloseFeedback ==
    /\ SugRendered
    /\ feedbackContent # 0
    /\ feedbackContent' = 0
    /\ UNCHANGED <<conceptIdParam, suggestions, concept, sugLoading, sugError,
                   helpPosted, sugMounted, sugPending, sugNav>>
    /\ OnlySug

\* 'Upload Content', in the empty list
UploadContentButton ==
    /\ SugRendered
    /\ RenderedCards = <<>>
    /\ sugNav' = <<"/upload">>
    /\ UNCHANGED <<conceptIdParam, suggestions, concept, sugLoading, sugError,
                   helpPosted, feedbackContent, sugMounted, sugPending>>
    /\ OnlySug

\* the page is opened with or without a concept_id in its URL
SugInit ==
    /\ TokenNone /\ ApiIdle /\ AuthIdle /\ RecIdle /\ HelpIdle /\ UpIdle /\ FeedIdle
    /\ MoreIdle
    /\ conceptIdParam \in {Null, "PHOTOSYNTHESIS"}
    /\ suggestions = JNull
    /\ concept = JNull
    /\ sugLoading = TRUE
    /\ sugError = ""
    /\ helpPosted = FALSE
    /\ feedbackContent = 0
    /\ sugMounted = FALSE
    /\ sugPending = FALSE
    /\ sugNav = <<>>

SugNext ==
    \/ SugMount
    \/ SuggestionsSettle
    \/ PostHelpNeeded
    \/ CardButton
    \/ CloseFeedback
    \/ UploadContentButton

SpecSug == SugInit /\ [][SugNext]_vars

\* a rendered card shows content that is external and not verified
UnverifiedExternal(content) ==
    content.source_type # "internal" /\ ~content.is_verified

\* C8: whenever the rendered suggestion list has an item that is not internal
\* and not verified, the external-content warning is rendered too.
C8_UnverifiedExternalHasWarning ==
    (\E i \in 1..Len(RenderedCards) : UnverifiedExternal(RenderedCards[i]))
        => BannerRendered


(***************************************************************************)
(* app/upload/page.tsx                                                     *)
(***************************************************************************)
\* what GET /help/recent may list: a request the backend resolved to a
\* concept, and one it did not
RecentHelpRequests ==
    << [id |-> "h1", concept_id |-> "FRACTIONS", original_query_text |-> <<"a">>],
       [id |-> "h2", concept_id |-> Null, original_query_text |-> <<" ">>] >>

\* what POST /ai/suggest-topic may answer
SuggestTopicResponses ==
    { [ok |-> TRUE, body |-> JObj("matched_topic_id" :> JStr("FRACTIONS"))],
      [ok |-> TRUE, body |-> JObj(("matched_topic_id" :> JStr("FRACTIONS"))
                                  @@ ("suggested_new_topic" :> JStr("Decimals"))
                                  @@ ("suggested_new_topic_id" :> JStr("DECIMALS")))],
      [ok |-> TRUE, body |-> JObj(("matched_topic_id" :> JNull)
                                  @@ ("suggested_new_topic" :> JStr("Decimals"))
                                  @@ ("suggested_new_topic_id" :> JStr("DECIMALS")))],
      [ok |-> TRUE, body |-> JObj(("matched_topic_id" :> JStr(""))
                                  @@ ("suggested_new_topic_id" :> JStr("DECIMALS")))],
      [ok |-> TRUE, body |-> JObj("error" :> JStr("no match"))],
      [ok |-> FALSE, body |-> JObj("detail" :> JStr("Invalid token"))] }

\* what POST /ai/create-topic and POST /content/upload-file may answer
WriteResponses ==
    { [ok |-> TRUE, body |-> JObj("id" :> JStr("n1"))],
      [ok |-> FALSE, body |-> NotJson] }

\* the topic as a slip would resolve it: the new topic before the match
ResolveTopicNewFirst(suggestion) ==
    IF JTruthy(Field(suggestion, "suggested_new_topic"))
         /\ JTruthy(Field(suggestion, "suggested_new_topic_id"))
      THEN [kind |-> "new", id |-> JsString(Field(suggestion, "suggested_new_topic_id"))]
    ELSE IF JTruthy(Field(suggestion, "matched_topic_id"))
      THEN [kind |-> "matched", id |-> JsString(Field(suggestion, "matched_topic_id"))]
    ELSE [kind |-> "none", id |-> ""]

\* handleSubmit's branches on the suggestion: the matched topic, else the
\* new topic that has a name and an id, else none
ResolveTopic(suggestion) ==
    IF JTruthy(Field(suggestion, "matched_topic_id"))
      THEN [kind |-> "matched", id |-> JsString(Field(suggestion, "matched_topic_id"))]
    ELSE IF JTruthy(Field(suggestion, "suggested_new_topic"))
              /\ JTruthy(Field(suggestion, "suggested_new_topic_id"))
      THEN [kind |-> "new", id |-> JsString(Field(suggestion, "suggested_new_topic_id"))]
    ELSE [kind |-> "none", id |-> ""]

\* the uploadFileToCloudinary call of a handleSubmit
UploadCall(cap, finalConceptId) ==
    [api |-> "uploadFileToCloudinary", file |-> cap.file, title |-> Trim(cap.title),
     concept_id |-> finalConceptId, help_request_id |-> cap.help]

\* the catch without its setError
UploadFlowFailedSilently(message) ==
    /\ upLoading' = FALSE
    /\ job' = [job EXCEPT !.phase = "done", !.results = Append(@, "rejected")]
    /\ UNCHANGED <<upError, calls, upNav>>

\* the catch and the finally of handleSubmit
UploadFlowFailed(message) ==
    /\ upError' = message
    /\ upLoading' = FALSE
    /\ job' = [job EXCEPT !.phase = "done", !.results = Append(@, "rejected")]
    /\ UNCHANGED <<calls, upNav>>

\* the mount effect: checkCloudinary(); fetchHelpRequests()
UpMount ==
    /\ ~upMounted
    /\ upMounted' = TRUE
    /\ upPending' = {"checkCloudinary", "fetchHelpRequests"}
    /\ loadingHelp' = TRUE
    /\ UNCHANGED <<selectedFile, title, conceptId, upLoading, upError, cloudinaryReady,
                   helpRequests, selectedHelpRequestId, job, calls, upNav>>
    /\ OnlyUp

\* checkCloudinary after its await: status.configured, or false in the catch
CheckCloudinarySettles ==
    \E ready \in {"true", "false"} :
        /\ "checkCloudinary" \in upPending
        /\ upPending' = upPending \ {"checkCloudinary"}
        /\ cloudinaryReady' = ready
        /\ UNCHANGED <<selectedFile, title, conceptId, upLoading, upError, helpRequests,
                       loadingHelp, selectedHelpRequestId, upMounted, job, calls, upNav>>
        /\ OnlyUp

\* fetchHelpRequests after its await
FetchHelpRequestsSettles ==
    \E ok \in BOOLEAN :
        /\ "fetchHelpRequests" \in upPending
        /\ upPending' = upPending \ {"fetchHelpRequests"}
        /\ helpRequests' = IF ok THEN RecentHelpRequests ELSE helpRequests
        /\ loadingHelp' = FALSE
        /\ UNCHANGED <<selectedFile, title, conceptId, upLoading, upError,
                       cloudinaryReady, selectedHelpRequestId, upMounted, job, calls,
                       upNav>>
        /\ OnlyUp

\* handleFileSelect with a file chosen
SelectFile ==
    /\ upMounted
    /\ upNav = <<>>
    /\ selectedFile' = "f1"
    /\ upError' = Null
    /\ UNCHANGED <<title, conceptId, upLoading, cloudinaryReady, helpRequests,
                   loadingHelp, selectedHelpRequestId, upMounted, upPending, job,
                   calls, upNav>>
    /\ OnlyUp

\* the title input's onChange
TypeTitle ==
    \E text \in Texts :
        /\ upMounted
        /\ upNav = <<>>
        /\ text # title
        /\ title' = text
        /\ UNCHANGED <<selectedFile, conceptId, upLoading, upError, cloudinaryReady,
                       helpRequests, loadingHelp, selectedHelpRequestId, upMounted,
                       upPending, job, calls, upNav>>
        /\ OnlyUp

\* handleHelpRequestClick: deselect the selected request, or select another
HandleHelpRequestClick ==
    \E i \in 1..Len(helpRequests) :
        /\ upNav = <<>>
        /\ ~loadingHelp
        /\ IF selectedHelpRequestId = helpRequests[i].id
             THEN /\ selectedHelpRequestId' = Null
                  /\ conceptId' = ""
                  /\ title' = <<>>
             ELSE /\ selectedHelpRequestId' = helpRequests[i].id
                  /\ conceptId' = IF Truthy(helpRequests[i].concept_id)
                                    THEN helpRequests[i].concept_id ELSE conceptId
                  /\ title' = helpRequests[i].original_query_text
        /\ UNCHANGED <<selectedFile, upLoading, upError, cloudinaryReady, helpRequests,
                       loadingHelp, upMounted, upPending, job, calls, upNav>>
        /\ OnlyUp

\* the submit button, and handleSubmit up to its first await: with a
\* conceptId the upload is sent, without one suggestTopic is
UpHandleSubmit ==
    /\ upMounted
    /\ upNav = <<>>
    /\ ~(upLoading \/ selectedFile = Null \/ Trim(title) = <<>>
           \/ cloudinaryReady = "false")
    /\ LET cap == [file |-> selectedFile, title |-> title, conceptId |-> conceptId,
                   help |-> selectedHelpRequestId]
       IN  IF selectedFile = Null \/ Trim(title) = <<>>
             THEN /\ upError' = "Please fill in all required fields"
                  /\ UNCHANGED <<upLoading, job, calls>>
             ELSE /\ upLoading' = TRUE
                  /\ upError' = Null
                  /\ IF Truthy(conceptId)
                       THEN /\ job' = [phase |-> "upload", cap |-> cap,
                                       suggestion |-> JNull, final |-> conceptId,
                                       results |-> <<>>]
                            /\ calls' = <<UploadCall(cap, conceptId)>>
                       ELSE /\ job' = [phase |-> "suggest", cap |-> cap,
                                       suggestion |-> JNull, final |-> conceptId,
                                       results |-> <<>>]
                            /\ calls' = <<[api |-> "suggestTopic", title |-> title]>>
    /\ UNCHANGED <<selectedFile, title, conceptId, cloudinaryReady, helpRequests,
                   loadingHelp, selectedHelpRequestId, upMounted, upPending, upNav>>
    /\ OnlyUp

\* suggestTopic settles: the upload follows a match, createTopicWithTranslations
\* a new topic; without either, or on a rejection, the catch
SuggestTopicSettles ==
    \E resp \in SuggestTopicResponses :
        /\ job.phase = "suggest"
        /\ LET out == ApiFetchOutcome(resp)
               topic == ResolveTopic(out.value)
           IN  IF out.state = "rejected"
                 THEN UploadFlowFailed(out.message)
               ELSE IF topic.kind = "matched"
                 THEN /\ job' = [job EXCEPT !.phase = "upload", !.suggestion = out.value,
                                            !.final = topic.id,
                                            !.results = Append(@, "resolved")]
                      /\ calls' = Append(calls, UploadCall(job.cap, topic.id))
                      /\ UNCHANGED <<upError, upLoading, upNav>>
               ELSE IF topic.kind = "new"
                 THEN /\ job' = [job EXCEPT !.phase = "create", !.suggestion = out.value,
                                            !.results = Append(@, "resolved")]
                      /\ calls' = Append(calls, [api |-> "createTopicWithTranslations",
                                                 topicId |-> topic.id])
                      /\ UNCHANGED <<upError, upLoading, upNav>>
               ELSE /\ upError' = "Could not automatically determine a topic. Please try a more descriptive title."
                    /\ upLoading' = FALSE
                    /\ job' = [job EXCEPT !.phase = "done", !.suggestion = out.value,
                                          !.results = Append(@, "resolved")]
                    /\ UNCHANGED <<calls, upNav>>
        /\ UNCHANGED <<selectedFile, title, conceptId, cloudinaryReady, helpRequests,
                       loadingHelp, selectedHelpRequestId, upMounted, upPending>>
        /\ OnlyUp

\* createTopicWithTranslations settles: finalConceptId is the new topic's id
\* and the upload is sent, or the catch
CreateTopicSettles ==
    \E resp \in WriteResponses :
        /\ job.phase = "create"
        /\ LET out == ApiFetchOutcome(resp)
               newId == JsString(Field(job.suggestion, "suggested_new_topic_id"))
           IN  IF out.state = "rejected"
                 THEN UploadFlowFailed(out.message)
                 ELSE /\ job' = [job EXCEPT !.phase = "upload", !.final = newId,
                                            !.results = Append(@, "resolved")]
                      /\ calls' = Append(calls, UploadCall(job.cap, newId))
                      /\ UNCHANGED <<upError, upLoading, upNav>>
        /\ UNCHANGED <<selectedFile, title, conceptId, cloudinaryReady, helpRequests,
                       loadingHelp, selectedHelpRequestId, upMounted, upPending>>
        /\ OnlyUp

\* uploadFileToCloudinary settles: router.push('/'), or the catch
UploadSettles ==
    \E resp \in WriteResponses :
        /\ job.phase = "upload"
        /\ LET out == UploadOutcome(resp)
           IN  IF out.state = "rejected"
                 THEN UploadFlowFailed(out.message)
                 ELSE /\ upNav' = <<"/">>
                      /\ upLoading' = FALSE
                      /\ job' = [job EXCEPT !.phase = "done",
                                            !.results = Append(@, "resolved")]
                      /\ UNCHANGED <<upError, calls>>
        /\ UNCHANGED <<selectedFile, title, conceptId, cloudinaryReady, helpRequests,
                       loadingHelp, selectedHelpRequestId, upMounted, upPending>>
        /\ OnlyUp

\* the page is opened with or without a concept_id in its URL
UpInit ==
    /\ TokenNone /\ ApiIdle /\ AuthIdle /\ RecIdle /\ HelpIdle /\ SugIdle /\ FeedIdle
    /\ MoreIdle
    /\ selectedFile = Null
    /\ title = <<>>
    /\ conceptId \in {"", "PHOTOSYNTHESIS"}
    /\ upLoading = FALSE
    /\ upError = Null
    /\ cloudinaryReady = "null"
    /\ helpRequests = <<>>
    /\ loadingHelp = TRUE
    /\ selectedHelpRequestId = Null
    /\ upMounted = FALSE
    /\ upPending = {}
    /\ job = NoJob
    /\ calls = <<>>
    /\ upNav = <<>>

UpNext ==
    \/ UpMount
    \/ CheckCloudinarySettles
    \/ FetchHelpRequestsSettles
    \/ SelectFile
    \/ TypeTitle
    \/ HandleHelpRequestClick
    \/ UpHandleSubmit
    \/ SuggestTopicSettles
    \/ CreateTopicSettles
    \/ UploadSettles

SpecUp == UpInit /\ [][UpNext]_vars

\* the calls of one api the last handleSubmit made
CallsOf(api) == {i \in 1..Len(calls) : calls[i].api = api}

\* a field of the suggestion is there: a string that is not empty
Present(suggestion, name) ==
    /\ suggestion.t = "object"
    /\ name \in DOMAIN suggestion.v
    /\ suggestion.v[name].t = "string"
    /\ suggestion.v[name].v # ""

\* the upload the last handleSubmit sent is the one the submit calls for
UploadAsResolved ==
    /\ \A i \in CallsOf("uploadFileToCloudinary") :
          /\ calls[i].concept_id # ""
          /\ calls[i].file # Null
          /\ calls[i].file = job.cap.file
          /\ calls[i].title # <<>>
          /\ calls[i].title[1] # " "
          /\ calls[i].title = Trim(job.cap.title)
          /\ IF job.cap.conceptId # ""
               THEN /\ calls[i].concept_id = job.cap.conceptId
                    /\ CallsOf("suggestTopic") = {}
                    /\ CallsOf("createTopicWithTranslations") = {}
             ELSE IF Present(job.suggestion, "matched_topic_id")
               THEN /\ calls[i].concept_id = job.suggestion.v["matched_topic_id"].v
                    /\ CallsOf("suggestTopic") = {1}
                    /\ CallsOf("createTopicWithTranslations") = {}
             ELSE /\ Present(job.suggestion, "suggested_new_topic_id")
                  /\ calls[i].concept_id = job.suggestion.v["suggested_new_topic_id"].v
                  /\ CallsOf("suggestTopic") = {1}
                  /\ CallsOf("createTopicWithTranslations") = {2}
                  /\ calls[2].topicId = calls[i].concept_id
                  /\ i = 3
    /\ Cardinality(CallsOf("uploadFileToCloudinary")) <= 1

\* a handleSubmit that ends without having sent an upload sets an error and
\* does not navigate
NoUploadShowsError ==
    (job.phase # "done" /\ job'.phase = "done"
       /\ \A i \in 1..Len(calls') : calls'[i].api # "uploadFileToCloudinary")
    => (upError' # Null /\ upError' # "" /\ upNav' = <<>>)

\* C9: an upload is sent with the file and the trimmed title of the submit,
\* none of them or its concept_id empty; its concept_id is the conceptId that
\* was set, and then suggestTopic was not called; else the suggestion's
\* matched_topic_id, if there is one; else the suggested_new_topic_id, after
\* createTopicWithTranslations was called for it and resolved; and a
\* handleSubmit that ends without an upload shows an error.
C9_UploadConceptId == []UploadAsResolved /\ [][NoUploadShowsError]_vars

\* an upload was sent for a topic that was created for it
C9_Witness ==
    /\ job.phase = "upload"
    /\ CallsOf("createTopicWithTranslations") = {2}
    /\ calls[3].concept_id = "DECIMALS"

\* the last handleSubmit has sent an upload and the upload has resolved
UploadSucceeded ==
    /\ job.phase = "done"
    /\ calls[Len(calls)].api = "uploadFileToCloudinary"
    /\ job.results[Len(calls)] = "resolved"

\* an upload is sent after every earlier call of the handleSubmit has
\* resolved, the page navigates to '/' after the upload has resolved, and
\* loading is false when no handleSubmit is running
SubmitInOrder ==
    /\ job.phase # "idle" =>
          \A i \in CallsOf("uploadFileToCloudinary") :
              /\ i - 1 <= Len(job.results)
              /\ \A j \in 1..(i - 1) : job.results[j] = "resolved"
              /\ job.cap.conceptId = "" =>
                    /\ i > 1
                    /\ calls[1].api = "suggestTopic"
                    /\ i = 3 => calls[2].api = "createTopicWithTranslations"
    /\ upNav # <<>> => (upNav = <<"/">> /\ UploadSucceeded)
    /\ job.phase \in {"idle", "done"} => ~upLoading

\* the step that ends a handleSubmit: without a resolved upload it sets the
\* error and does not navigate; loading is false after it
SubmitEnds ==
    (job.phase # "done" /\ job'.phase = "done")
    => /\ ~upLoading'
       /\ Len(job'.results) = Len(calls')
       /\ IF UploadSucceeded'
            THEN upNav' = <<"/">> /\ upError' = Null
            ELSE upError' # Null /\ upError' # "" /\ upNav' = <<>>

\* C12: when handleSubmit finishes, the upload was sent only after the
\* topic was resolved (createTopicWithTranslations having resolved where a
\* new topic was needed), the page went to '/' only after the upload
\* resolved, a failure of suggestTopic, of createTopicWithTranslations or
\* of the upload set the error without navigating, and loading is false.
C12_SubmitOutcome == []SubmitInOrder /\ [][SubmitEnds]_vars

\* a handleSubmit has ended with createTopicWithTranslations rejected
C12_Witness ==
    /\ job.phase = "done"
    /\ Len(calls) = 2
    /\ calls[2].api = "createTopicWithTranslations"
    /\ job.results = <<"resolved", "rejected">>
    /\ upError # Null
    /\ upNav = <<>>
    /\ ~upLoading


(***************************************************************************)
(* app/community/page.tsx and the home page (app/page.tsx)                 *)
(***************************************************************************)
MaxFeedRequests == 3

\* type FeedTab of each page
FeedTabs(page) ==
    IF page = "home" THEN {"all", "help_needed"}
                     ELSE {"all", "help_needed", "uploads"}

\* the home page fetches and renders its feed only with a user
FeedUser == feedPage = "community" \/ JTruthy(user)

\* the home page renders its content when if (loading || !user) fails
FeedRendered == feedPage = "community" \/ (~authLoading /\ JTruthy(user))

\* fetchFeed(showRefresh) up to its await, in a render whose activeTab is tab
FetchFeed(tab, showRefresh) ==
    /\ feedSent < MaxFeedRequests
    /\ IF showRefresh
         THEN /\ refreshing' = TRUE
              /\ UNCHANGED feedLoading
         ELSE /\ feedLoading' = TRUE
              /\ UNCHANGED refreshing
    /\ feedReqs' = feedReqs \cup {[id |-> feedSent + 1, tab |-> tab]}
    /\ feedSent' = feedSent + 1

\* the effect on [activeTab] (home: [user, activeTab]) at the first render
FeedMount ==
    /\ ~feedMounted
    /\ feedMounted' = TRUE
    /\ IF FeedUser
         THEN FetchFeed(activeTab, FALSE)
         ELSE UNCHANGED <<feedLoading, refreshing, feedReqs, feedSent>>
    /\ UNCHANGED <<feedPage, activeTab, feed, feedFailed>>
    /\ OnlyFeed

\* a tab button: setActiveTab(tab), and the effect of the render that follows
SelectTab ==
    \E tab \in FeedTabs(feedPage) :
        /\ feedMounted
        /\ FeedRendered
        /\ tab # activeTab
        /\ activeTab' = tab
        /\ IF FeedUser
             THEN FetchFeed(tab, FALSE)
             ELSE UNCHANGED <<feedLoading, refreshing, feedReqs, feedSent>>
        /\ UNCHANGED <<feedPage, feed, feedMounted, feedFailed>>
        /\ OnlyFeed

\* the Refresh button, disabled while refreshing: fetchFeed(true)
RefreshFeed ==
    /\ feedMounted
    /\ FeedRendered
    /\ ~refreshing
    /\ FetchFeed(activeTab, TRUE)
    /\ UNCHANGED <<feedPage, activeTab, feed, feedMounted, feedFailed>>
    /\ OnlyFeed

\* a getCommunityFeed request settles: setFeed(data), or the catch;
\* finally: setLoading(false); setRefreshing(false)
FeedSettles ==
    \E r \in feedReqs, ok \in BOOLEAN :
        /\ feedReqs' = feedReqs \ {r}
        /\ feed' = IF ok THEN [tab |-> r.tab, id |-> r.id] ELSE feed
        /\ feedFailed' = (feedFailed \/ ~ok)
        /\ feedLoading' = FALSE
        /\ refreshing' = FALSE
        /\ UNCHANGED <<feedPage, activeTab, feedMounted, feedSent>>
        /\ OnlyFeed

\* a logged-in teacher
LoggedIn ==
    /\ localStorage = "t1"
    /\ authToken = "t1"
    /\ user = Teacher("t1")
    /\ authLoading = FALSE
    /\ mounted = TRUE
    /\ pending = {}
    /\ sent = 1
    /\ loggedOut = FALSE
    /\ refreshed = [kind |-> "none"]

\* a logged-in teacher opens the community page or the home page
FeedInit ==
    /\ LoggedIn /\ ApiIdle /\ RecIdle /\ HelpIdle /\ SugIdle /\ UpIdle
    /\ MoreIdle
    /\ feedPage \in {"community", "home"}
    /\ activeTab = "all"
    /\ feed = NoFeed
    /\ feedLoading = TRUE
    /\ refreshing = FALSE
    /\ feedMounted = FALSE
    /\ feedReqs = {}
    /\ feedSent = 0
    /\ feedFailed = FALSE

FeedNext ==
    \/ FeedMount
    \/ SelectTab
    \/ RefreshFeed
    \/ FeedSettles

SpecFeed == FeedInit /\ [][FeedNext]_vars

\* C10: once every getCommunityFeed request has settled, none of them
\* rejected, the feed shown is a response to a request for the active tab.
C10_FeedOfActiveTab ==
    (feedSent > 0 /\ feedReqs = {} /\ ~feedFailed) => feed.tab = activeTab

(***************************************************************************)
(* context/LanguageContext.tsx: LanguageProvider                           *)
(***************************************************************************)
MaxLoads == 3

SUPPORTED_LANGUAGES == {"en", "kn", "hi", "ta", "te"}

\* a string of a translation file, as a sequence of characters
JText(s) == [t |-> "text", v |-> s]

\* the first character of every string of a language's file
LangMark == [en |-> "E", kn |-> "K", hi |-> "H", ta |-> "T", te |-> "U"]

\* a string of a translation file as its author wrote it: pieces of plain
\* text and placeholders {{name}}
Lit(s) == [part |-> "text", v |-> s]
Ph(name) == [part |-> "placeholder", v |-> name]

\* the characters of a piece
PartText(p) ==
    IF p.part = "text" THEN p.v ELSE <<"{", "{">> \o p.v \o <<"}", "}">>

RECURSIVE TextOf(_)
TextOf(parts) ==
    IF parts = <<>> THEN <<>> ELSE PartText(Head(parts)) \o TextOf(Tail(parts))

\* the strings of translations/<lang>.json, by key: the same keys in every
\* file, property names being sequences of characters
FileParts(lang) ==
    [ab |-> <<Lit(<<LangMark[lang]>>), Ph(<<"n">>)>>,
     ac |-> <<Lit(<<LangMark[lang]>>)>>,
     g  |-> <<Ph(<<"m">>), Lit(<<"{", "{", "n", "}">>), Ph(<<"n", "m">>)>>,
     e  |-> <<>>]

\* translations/<lang>.json
TranslationsOf(lang) ==
    JObj((<<"a">> :> JObj((<<"b">> :> JText(TextOf(FileParts(lang).ab)))
                          @@ (<<"c">> :> JText(TextOf(FileParts(lang).ac)))))
         @@ (<<"g">> :> JText(TextOf(FileParts(lang).g)))
         @@ (<<"e">> :> JText(TextOf(FileParts(lang).e)))
         @@ (<<"z">> :> JNull))

\* the teachers getCurrentUser can answer with, by language_preference:
\* a supported one, one that is not supported, an empty one, null, none
LangUsers ==
    {JObj(("id" :> JStr("t1")) @@ ("language_preference" :> p)) :
        p \in {JStr("kn"), JStr("ta"), JStr("fr"), JStr(""), JNull}}
    \cup {JObj("id" :> JStr("t1")), JNull}

\* user?.language_preference
LanguagePreference(u) == Field(u, "language_preference")

\* loadTranslations(lang), up to its first await: the import begins
LoadTranslations(lang) ==
    /\ langSent < MaxLoads
    /\ langSent' = langSent + 1
    /\ langLoads' = langLoads \cup {[id |-> langSent + 1, lang |-> lang,
                                     file |-> lang]}

\* the effect on user?.language_preference
PreferenceEffect(u) ==
    LET newLang == IF JTruthy(LanguagePreference(u))
                   THEN LanguagePreference(u).v ELSE "en"
    IN  IF newLang \in SUPPORTED_LANGUAGES
        THEN /\ language' = newLang
             /\ LoadTranslations(newLang)
        ELSE /\ language' = "en"
             /\ LoadTranslations("en")

\* the provider renders for the first time and its effect runs
LangMount ==
    /\ ~langMounted
    /\ langMounted' = TRUE
    /\ PreferenceEffect(user)
    /\ UNCHANGED <<user, translations, langFailed, tCall>>
    /\ OnlyLang

\* AuthProvider sets another user: the effect runs again when the
\* language preference is not the one of the last render
UserChanges ==
    /\ langMounted
    /\ \E u \in LangUsers :
        /\ LanguagePreference(u) # LanguagePreference(user)
        /\ user' = u
        /\ PreferenceEffect(u)
    /\ UNCHANGED <<langMounted, translations, langFailed, tCall>>
    /\ OnlyLang

\* what a caller can pass to changeLanguage
LanguageArgs == {"en", "kn", "hi", "ta", "fr"}

ChangeLanguage(lang) ==
    /\ langMounted
    /\ IF lang \in SUPPORTED_LANGUAGES
       THEN /\ language' = lang
            /\ LoadTranslations(lang)
       ELSE UNCHANGED <<language, langLoads, langSent>>
    /\ UNCHANGED <<user, langMounted, translations, langFailed, tCall>>
    /\ OnlyLang

CallChangeLanguage == \E lang \in LanguageArgs : ChangeLanguage(lang)

\* an import of loadTranslations settles: the file's module arrives, or the
\* import fails and, for a language other than English, en.json is imported
ImportSettles ==
    /\ \E l \in langLoads, ok \in BOOLEAN :
        IF ok
        THEN /\ translations' = TranslationsOf(l.file)
             /\ langLoads' = langLoads \ {l}
             /\ UNCHANGED langFailed
        ELSE /\ langFailed' = TRUE
             /\ UNCHANGED translations
             /\ langLoads' =
                    IF l.file = l.lang /\ l.lang # "en"
                    THEN (langLoads \ {l}) \cup {[l EXCEPT !.file = "en"]}
                    ELSE langLoads \ {l}
    /\ UNCHANGED <<user, language, langMounted, langSent, tCall>>
    /\ OnlyLang

\* key.split('.')
RECURSIVE Split(_)
Split(key) ==
    IF key = <<>> THEN << <<>> >>
    ELSE IF Head(key) = "." THEN << <<>> >> \o Split(Tail(key))
    ELSE LET rest == Split(Tail(key))
         IN  << <<Head(key)>> \o Head(rest) >> \o Tail(rest)

\* the loop of t over the keys
RECURSIVE Navigate(_, _)
Navigate(value, keys) ==
    IF keys = <<>> THEN value
    ELSE IF value.t = "object"
    THEN Navigate(Field(value, Head(keys)), Tail(keys))
    ELSE JUndefined

\* the values of a params object: strings, numbers and null
PStr(s) == [p |-> "string", v |-> s]
PNum(n) == [p |-> "number", n |-> n]
PNull   == [p |-> "null"]

\* a params object, and no params argument
PObj(f) == [p |-> "object", f |-> f]
NoParams == [p |-> "undefined"]

Digit == <<"0", "1", "2", "3", "4", "5", "6", "7", "8", "9">>

\* n.toString() for a natural number
RECURSIVE NumberToString(_)
NumberToString(n) ==
    IF n < 10 THEN <<Digit[n + 1]>>
    ELSE NumberToString(n \div 10) \o <<Digit[(n % 10) + 1]>>

\* params[paramKey]?.toString()
ParamToString(params, paramKey) ==
    IF paramKey \notin DOMAIN params.f THEN SNull
    ELSE LET v == params.f[paramKey]
         IN  CASE v.p = "string" -> v.v
               [] v.p = "number" -> NumberToString(v.n)
               [] OTHER -> SNull

\* the replacement without its || match
ReplacementAlways(params, paramKey, match) ==
    IF ParamToString(params, paramKey) = SNull THEN match
    ELSE ParamToString(params, paramKey)

\* params[paramKey]?.toString() || match
Replacement(params, paramKey, match) ==
    IF STruthy(ParamToString(params, paramKey))
    THEN ParamToString(params, paramKey) ELSE match

\* the characters \w matches, of those the strings here are made of
WordChars == {"a", "b", "c", "g", "m", "n", "E", "K", "H", "T", "U", "0", "7"}

\* the length of the longest run of \w characters s begins with
RECURSIVE WordRun(_)
WordRun(s) ==
    IF s # <<>> /\ Head(s) \in WordChars THEN 1 + WordRun(Tail(s)) ELSE 0

\* the length of the match of /\{\{(\w+)\}\}/ at the beginning of s, or 0
MatchLen(s) ==
    IF Len(s) >= 5 /\ s[1] = "{" /\ s[2] = "{"
    THEN LET n == WordRun(SubSeq(s, 3, Len(s)))
         IN  IF n > 0 /\ Len(s) >= n + 4 /\ s[n + 3] = "}" /\ s[n + 4] = "}"
             THEN n + 4 ELSE 0
    ELSE 0

\* value.replace(/\{\{(\w+)\}\}/g, (match, paramKey) => ...)
RECURSIVE Replace(_, _)
Replace(s, params) ==
    IF s = <<>> THEN <<>>
    ELSE LET n == MatchLen(s)
         IN  IF n > 0
             THEN Replacement(params, SubSeq(s, 3, n - 2), SubSeq(s, 1, n))
                      \o Replace(SubSeq(s, n + 1, Len(s)), params)
             ELSE <<Head(s)>> \o Replace(Tail(s), params)

\* t(key, params) with the translations tr
T(tr, key, params) ==
    LET value == Navigate(tr, Split(key))
    IN  IF value.t # "text" THEN key
        ELSE IF params.p = "object" THEN Replace(value.v, params)
        ELSE value.v

\* the keys and the params a component can pass to t
TKeys ==
    {<<>>, <<"g">>, <<"e">>, <<"z">>, <<"a">>, <<"a", ".", "b">>,
     <<"a", ".", "c">>, <<"a", ".", "b", ".", "c">>, <<"a", ".">>,
     <<"b">>, <<"a", "b">>}

TParams ==
    {NoParams, PObj(<<>>)}
    \cup {PObj(<<"n">> :> v) :
             v \in {PStr(<<"a">>), PStr(<<>>), PNum(0), PNum(70), PNull}}
    \cup {PObj((<<"n">> :> PStr(<<"{", "{", "m", "}", "}">>)) @@ (<<"m">> :> PNum(7))),
          PObj((<<"n", "m">> :> PStr(<<"b">>)) @@ (<<"m">> :> PStr(<<>>)))}

\* a component calls t
CallT ==
    /\ langMounted
    /\ \E key \in TKeys, params \in TParams :
        tCall' = [kind |-> "call", key |-> key, params |-> params,
                  tr |-> translations, result |-> T(translations, key, params)]
    /\ UNCHANGED <<user, language, translations, langMounted, langLoads,
                   langSent, langFailed>>
    /\ OnlyLang

LangInit ==
    /\ TokenNone /\ ApiIdle /\ AuthIdle /\ RecIdle /\ HelpIdle
    /\ SugIdle /\ UpIdle /\ FeedIdle /\ LangIdle /\ HeadIdle /\ LoginIdle
    /\ GuardIdle /\ DetailIdle

LangNext ==
    \/ LangMount
    \/ UserChanges
    \/ CallChangeLanguage
    \/ ImportSettles

SpecLang == LangInit /\ [][LangNext]_vars

\* the provider with no file loaded yet, or with one of the files loaded
TInit ==
    /\ TokenNone /\ ApiIdle /\ AuthIdle /\ RecIdle /\ HelpIdle
    /\ SugIdle /\ UpIdle /\ FeedIdle /\ HeadIdle /\ LoginIdle /\ GuardIdle
    /\ DetailIdle
    /\ langMounted = TRUE
    /\ \/ language = "en" /\ translations = JObj(NoFields)
       \/ \E lang \in SUPPORTED_LANGUAGES :
            language = lang /\ translations = TranslationsOf(lang)
    /\ langLoads = {}
    /\ langSent = 0
    /\ langFailed = FALSE
    /\ tCall = [kind |-> "none"]

TNext == CallT

SpecT == TInit /\ [][TNext]_vars

\* C11: the language is always one of English, Kannada and Hindi.
C11_LanguageOfReadme == language \in {"en", "kn", "hi"}

\* C14: once every import has settled, none of them failed, the
\* translations are those of the current language.
C14_TranslationsOfLanguage ==
    (langSent > 0 /\ langLoads = {} /\ ~langFailed)
        => translations = TranslationsOf(language)

\* the keys whose dot-separated path is a string of every file
KeyFile ==
    (<<"a", ".", "b">> :> "ab") @@ (<<"a", ".", "c">> :> "ac")
    @@ (<<"g">> :> "g") @@ (<<"e">> :> "e")

\* params[name] is provided and its string form is not empty
Provided(params, name) ==
    /\ name \in DOMAIN params.f
    /\ params.f[name] # PNull
    /\ params.f[name] # PStr(<<>>)

\* the string form of a provided value
StringForm(v) == IF v.p = "string" THEN v.v ELSE NumberToString(v.n)

\* a string of a file with each placeholder replaced by the string form of
\* its value where one is provided, and left as it is where none is
RECURSIVE Render(_, _)
Render(parts, params) ==
    IF parts = <<>> THEN <<>>
    ELSE LET p == Head(parts)
         IN  (IF p.part = "placeholder" /\ Provided(params, p.v)
              THEN StringForm(params.f[p.v]) ELSE PartText(p))
             \o Render(Tail(parts), params)

\* what t is to return for a call with the file of lang loaded
Translated(lang, key, params) ==
    IF key \notin DOMAIN KeyFile THEN key
    ELSE IF params = NoParams THEN TextOf(FileParts(lang)[KeyFile[key]])
    ELSE Render(FileParts(lang)[KeyFile[key]], params)

\* C15: t returns the key when its path is not that of a string of the
\* loaded translations (none being loaded included); else the translation
\* with every placeholder replaced by the string form of the value params
\* provides for it, left as it is where params provides none or an empty
\* one, and the translation unchanged when there are no params.
C15_TReturns ==
    tCall.kind = "call" =>
        /\ tCall.tr = JObj(NoFields) => tCall.result = tCall.key
        /\ \A lang \in SUPPORTED_LANGUAGES :
            tCall.tr = TranslationsOf(lang) =>
                tCall.result = Translated(lang, tCall.key, tCall.params)

\* t has replaced one placeholder by "a" and left two as they are, one of
\* them with an empty value
C15_Witness ==
    /\ tCall.kind = "call"
    /\ tCall.tr = TranslationsOf("kn")
    /\ tCall.key = <<"g">>
    /\ tCall.params = PObj((<<"n", "m">> :> PStr(<<"b">>)) @@ (<<"m">> :> PStr(<<>>)))
    /\ tCall.result = <<"{", "{", "m", "}", "}", "{", "{", "n", "}", "b">>


(***************************************************************************)
(* components/Header.tsx                                                   *)
(***************************************************************************)
MaxPolls == 3

\* the notification lists GET /notifications can answer with
NotificationLists ==
    {<<>>, <<[is_read |-> TRUE]>>, <<[is_read |-> FALSE]>>,
     <<[is_read |-> FALSE], [is_read |-> TRUE]>>,
     <<[is_read |-> FALSE], [is_read |-> FALSE]>>}

\* notifications.filter(n => !n.is_read).length
GetUnreadNotificationCount(notifications) ==
    Cardinality({i \in 1..Len(notifications) : ~notifications[i].is_read})

\* data.unread_count, data being what getUnreadNotificationCount resolved
\* to: a number has no such property
UnreadCountOf(data) == JUndefined

\* unreadCount > 0
Positive(count) == count.t = "number" /\ count.n > 0

\* the badge is rendered
BadgeRendered == JTruthy(user) /\ Positive(unreadCount)

\* fetchUnreadCount up to its await
FetchUnreadCount ==
    /\ headSent < MaxPolls
    /\ headSent' = headSent + 1
    /\ headReqs' = headReqs \cup {headSent + 1}

\* the effect on [user], after the cleanup of its last run
HeaderEffect(u) ==
    IF JTruthy(u)
    THEN FetchUnreadCount /\ headInterval' = TRUE
    ELSE headInterval' = FALSE /\ UNCHANGED <<headReqs, headSent>>

\* the Header renders for the first time
HeaderMount ==
    /\ headMounted = "no"
    /\ headMounted' = "yes"
    /\ HeaderEffect(user)
    /\ UNCHANGED <<user, unreadCount, headLast>>
    /\ OnlyHead

\* AuthProvider sets another user, or none
HeaderUserChanges ==
    /\ headMounted = "yes"
    /\ \E u \in {JNull, Teacher("t1")} :
        /\ ~(u = JNull /\ user = JNull)
        /\ user' = u
        /\ HeaderEffect(u)
    /\ UNCHANGED <<unreadCount, headMounted, headLast>>
    /\ OnlyHead

\* the interval fires
IntervalFires ==
    /\ headInterval
    /\ FetchUnreadCount
    /\ UNCHANGED <<user, unreadCount, headMounted, headInterval, headLast>>
    /\ OnlyHead

\* fetchUnreadCount after its await: setUnreadCount, or the empty catch; a
\* Header that is no longer mounted keeps no state
UnreadCountSettles ==
    /\ \E r \in headReqs, ok \in BOOLEAN, notifications \in NotificationLists :
        /\ headReqs' = headReqs \ {r}
        /\ IF ok /\ headMounted = "yes"
           THEN /\ unreadCount' =
                      UnreadCountOf(GetUnreadNotificationCount(notifications))
                /\ headLast' = [kind |-> "resolved", notifications |-> notifications]
           ELSE UNCHANGED <<unreadCount, headLast>>
    /\ UNCHANGED <<user, headMounted, headInterval, headSent>>
    /\ OnlyHead

\* the Header unmounts: the cleanup of the effect clears the interval
HeaderUnmount ==
    /\ headMounted = "yes"
    /\ headMounted' = "unmounted"
    /\ headInterval' = FALSE
    /\ UNCHANGED <<user, unreadCount, headReqs, headSent, headLast>>
    /\ OnlyHead

HeaderInit ==
    /\ TokenNone /\ ApiIdle /\ AuthIdle /\ RecIdle /\ HelpIdle
    /\ SugIdle /\ UpIdle /\ FeedIdle /\ LangIdle /\ HeadIdle /\ LoginIdle
    /\ GuardIdle /\ DetailIdle

HeaderNext ==
    \/ HeaderMount
    \/ HeaderUserChanges
    \/ IntervalFires
    \/ UnreadCountSettles
    \/ HeaderUnmount

SpecHeader == HeaderInit /\ [][HeaderNext]_vars

\* C13: with a user logged in, after a poll that resolved, unreadCount is
\* the number of unread notifications among those fetched, and the badge
\* is rendered exactly when that number is greater than zero.
C13_UnreadCountOfPoll ==
    (JTruthy(user) /\ headMounted = "yes" /\ headLast.kind = "resolved")
    => /\ unreadCount = JNum(GetUnreadNotificationCount(headLast.notifications))
       /\ BadgeRendered <=> GetUnreadNotificationCount(headLast.notifications) > 0


(***************************************************************************)
(* app/login/page.tsx                                                      *)
(***************************************************************************)
\* what POST /auth/login may answer
LoginResponses ==
    { [ok |-> TRUE, body |-> JObj("access_token" :> JStr("t1"))],
      [ok |-> TRUE, body |-> JObj("access_token" :> JStr("t2"))],
      [ok |-> TRUE, body |-> JObj("detail" :> JStr("pending"))],
      [ok |-> FALSE, body |-> JObj("detail" :> JStr("Invalid credentials"))],
      [ok |-> FALSE, body |-> NotJson] }

\* data.access_token as login() gets it: a string, or undefined
AccessToken(data) ==
    IF Field(data, "access_token").t = "string"
    THEN Field(data, "access_token").v ELSE Null

\* handleSubmit after await login(...): router.push('/'), and the finally
LoginDone ==
    /\ loginNav' = <<"/">>
    /\ loginLoading' = FALSE
    /\ loginJob' = [loginJob EXCEPT !.phase = "done"]
    /\ UNCHANGED <<phone, password, loginError>>

\* the phone input's onChange
TypePhone ==
    /\ loginNav = <<>>
    /\ \E text \in {"", "9876543210"} :
        /\ text # phone
        /\ phone' = text
    /\ UNCHANGED <<password, loginError, loginLoading, loginNav, loginJob>>
    /\ UNCHANGED <<tokenVars, authVars>>
    /\ OnlyLogin

\* the password input's onChange
TypePassword ==
    /\ loginNav = <<>>
    /\ \E text \in {"", "secret"} :
        /\ text # password
        /\ password' = text
    /\ UNCHANGED <<phone, loginError, loginLoading, loginNav, loginJob>>
    /\ UNCHANGED <<tokenVars, authVars>>
    /\ OnlyLogin

\* the form is submitted, both required inputs being filled and the button
\* enabled: handleSubmit up to its first await
LoginHandleSubmit ==
    /\ mounted
    /\ loginNav = <<>>
    /\ ~loginLoading
    /\ phone # "" /\ password # ""
    /\ loginError' = ""
    /\ loginLoading' = TRUE
    /\ loginJob' = [phase |-> "apiLogin", api |-> "none", token |-> Null, id |-> 0]
    /\ UNCHANGED <<phone, password, loginNav, tokenVars, authVars>>
    /\ OnlyLogin

\* apiLogin settles: the catch, or login(data.access_token) up to the await
\* of refreshUser; without a token refreshUser sends nothing and
\* handleSubmit goes on
ApiLoginSettles ==
    /\ loginJob.phase = "apiLogin"
    /\ \E resp \in LoginResponses :
        LET out == LoginOutcome(resp)
        IN  IF out.state = "rejected"
            THEN /\ loginError' = out.message
                 /\ loginLoading' = FALSE
                 /\ loginJob' = [loginJob EXCEPT !.phase = "done", !.api = "rejected"]
                 /\ UNCHANGED <<loginNav, tokenVars, authVars>>
            ELSE /\ Login(AccessToken(out.value))
                 /\ IF Truthy(AccessToken(out.value))
                    THEN /\ loginJob' = [phase |-> "refresh", api |-> "resolved",
                                         token |-> AccessToken(out.value),
                                         id |-> sent + 1]
                         /\ UNCHANGED <<loginError, loginLoading, loginNav>>
                    ELSE /\ loginNav' = <<"/">>
                         /\ loginLoading' = FALSE
                         /\ loginJob' = [phase |-> "done", api |-> "resolved",
                                         token |-> Null, id |-> 0]
                         /\ UNCHANGED loginError
    /\ UNCHANGED <<phone, password>>
    /\ OnlyLogin

\* a getCurrentUser request settles; when it is the one login() awaits,
\* handleSubmit goes on
LoginRefreshSettles ==
    /\ \E r \in pending :
        \E resp \in MeResponses(r.token) :
            /\ RefreshUserAfterAwait(r, resp)
            /\ IF loginJob.phase = "refresh" /\ r.id = loginJob.id
               THEN LoginDone
               ELSE UNCHANGED loginVars
    /\ OnlyLogin

LoginInit ==
    /\ TokenInit /\ ApiIdle /\ AuthIdle /\ RecIdle /\ HelpIdle
    /\ SugIdle /\ UpIdle /\ FeedIdle /\ LangIdle /\ HeadIdle /\ LoginIdle
    /\ GuardIdle /\ DetailIdle

LoginNext ==
    \/ AuthMount
    \/ TypePhone
    \/ TypePassword
    \/ LoginHandleSubmit
    \/ ApiLoginSettles
    \/ LoginRefreshSettles

SpecLogin == LoginInit /\ [][LoginNext]_vars

\* the step in which handleSubmit navigates, apiLogin having returned an
\* access_token: the token is the stored one, and there is a user
NavigatesLoggedIn ==
    (loginNav' # loginNav /\ Truthy(loginJob'.token))
    => /\ loginNav' = <<"/">>
       /\ loginJob'.api = "resolved"
       /\ authToken' = loginJob'.token
       /\ localStorage' = loginJob'.token
       /\ JTruthy(user')

\* C19: when the login page's handleSubmit navigates to '/', apiLogin has
\* succeeded, the access_token returned is the stored auth token, and the
\* user of AuthProvider is not null.
C19_NavigatesLoggedIn == [][NavigatesLoggedIn]_vars


(***************************************************************************)
(* The home page (app/page.tsx) and the profile page: their guards         *)
(***************************************************************************)
MaxGuardRequests == 4

\* an effect's if (user), as a slip would have it
AlwaysUser(u) == TRUE

\* an effect's if (user)
HasUser(u) == JTruthy(u)

\* the requests the effects on [user] send: getPoints on both pages, and
\* fetchFeed on the home page
UserRequests(page) ==
    IF page = "home" THEN {"getPoints", "getCommunityFeed"} ELSE {"getPoints"}

\* requests are sent in a render whose user is u
SendRequests(apis, u) ==
    /\ guardSent + Cardinality(apis) <= MaxGuardRequests
    /\ guardSent' = guardSent + Cardinality(apis)
    /\ guardReqs' = guardReqs \cup
          {[id |-> guardSent + 1, api |-> api, withUser |-> JTruthy(u)] : api \in apis}

\* the effects of the render that follows a change of user or loading:
\* router.push('/login') if (!loading && !user), and the requests if (user)
\* when user has changed
GuardEffects(userChanged) ==
    /\ guardNav' = IF ~authLoading' /\ ~JTruthy(user')
                     /\ (userChanged \/ authLoading' # authLoading)
                   THEN <<"/login">> ELSE guardNav
    /\ IF userChanged /\ HasUser(user')
       THEN SendRequests(UserRequests(guardPage), user')
       ELSE UNCHANGED <<guardReqs, guardSent>>
    /\ UNCHANGED <<guardPage, points>>

\* the page's content is rendered: if (loading || !user) fails
ContentRendered ==
    /\ guardMounted
    /\ guardNav = <<>>
    /\ ~(authLoading \/ ~JTruthy(user))

\* the first render of the app: the page's effects run with loading true
\* and no user, then the provider's mount effect
GuardMount ==
    /\ ~guardMounted
    /\ guardMounted' = TRUE
    /\ MountEffect
    /\ guardNav' = IF ~authLoading' /\ ~JTruthy(user') THEN <<"/login">> ELSE guardNav
    /\ IF HasUser(user)
       THEN SendRequests(UserRequests(guardPage), user)
       ELSE UNCHANGED <<guardReqs, guardSent>>
    /\ UNCHANGED <<guardPage, points>>
    /\ OnlyGuard

\* the page is opened from another page, the provider being mounted: its
\* effects run with the provider's user and loading
GuardOpen ==
    /\ ~guardMounted
    /\ mounted
    /\ guardMounted' = TRUE
    /\ guardNav' = IF ~authLoading /\ ~JTruthy(user) THEN <<"/login">> ELSE guardNav
    /\ IF HasUser(user)
       THEN SendRequests(UserRequests(guardPage), user)
       ELSE UNCHANGED <<guardReqs, guardSent>>
    /\ UNCHANGED <<guardPage, points>>
    /\ UNCHANGED <<tokenVars, authVars>>
    /\ OnlyGuard

\* a getCurrentUser request settles, and the page renders again
GuardRefreshSettles ==
    /\ \E r \in pending :
        \E resp \in MeResponses(r.token) :
            /\ RefreshUserAfterAwait(r, resp)
            /\ IF guardNav = <<>>
               THEN /\ GuardEffects(~(user' = JNull /\ user = JNull))
                    /\ UNCHANGED guardMounted
               ELSE UNCHANGED guardVars
    /\ OnlyGuard

\* the home page's Refresh button: fetchFeed(true)
GuardRefreshFeed ==
    /\ guardPage = "home"
    /\ ContentRendered
    /\ SendRequests({"getCommunityFeed"}, user)
    /\ UNCHANGED <<guardPage, guardMounted, guardNav, points>>
    /\ UNCHANGED <<tokenVars, authVars>>
    /\ OnlyGuard

\* the profile page's handleLogout: logout(); router.push('/login')
GuardLogout ==
    /\ guardPage = "profile"
    /\ ContentRendered
    /\ Logout
    /\ guardNav' = <<"/login">>
    /\ UNCHANGED <<guardPage, guardMounted, points, guardReqs, guardSent>>
    /\ OnlyGuard

\* a getPoints or getCommunityFeed request settles
GuardRequestSettles ==
    /\ \E r \in guardReqs, ok \in BOOLEAN :
        /\ guardReqs' = guardReqs \ {r}
        /\ points' = IF ok /\ r.api = "getPoints" /\ guardNav = <<>>
                     THEN "set" ELSE points
    /\ UNCHANGED <<guardPage, guardMounted, guardNav, guardSent>>
    /\ UNCHANGED <<tokenVars, authVars>>
    /\ OnlyGuard

\* a logged-in teacher whose refreshUser(), called by the language page,
\* is in flight
RefreshingUser ==
    /\ localStorage = "t1"
    /\ authToken = "t1"
    /\ user = Teacher("t1")
    /\ authLoading = FALSE
    /\ mounted = TRUE
    /\ pending = {[id |-> 2, origin |-> "page", token |-> "t1"]}
    /\ sent = 2
    /\ loggedOut = FALSE
    /\ refreshed = [kind |-> "none"]

\* the provider after a login whose refreshUser ended in its catch
NotLoggedIn ==
    /\ TokenNone
    /\ user = JNull
    /\ authLoading = FALSE
    /\ mounted = TRUE
    /\ pending = {}
    /\ sent = 2
    /\ loggedOut = FALSE
    /\ refreshed = [kind |-> "none"]

\* the app is opened at the home page or at the profile page, or a teacher
\* comes to one of them from another page: logged in, the language page's
\* refreshUser() being in flight or not, or from the login page with no
\* user
GuardInit ==
    /\ \/ TokenInit /\ AuthIdle
       \/ LoggedIn
       \/ RefreshingUser
       \/ NotLoggedIn
    /\ ApiIdle /\ RecIdle /\ HelpIdle
    /\ SugIdle /\ UpIdle /\ FeedIdle /\ LangIdle /\ HeadIdle /\ LoginIdle
    /\ DetailIdle
    /\ guardPage \in {"home", "profile"}
    /\ guardMounted = FALSE
    /\ guardNav = <<>>
    /\ points = "null"
    /\ guardReqs = {}
    /\ guardSent = 0

GuardNext ==
    \/ GuardMount
    \/ GuardOpen
    \/ GuardRefreshSettles
    \/ GuardRefreshFeed
    \/ GuardLogout
    \/ GuardRequestSettles

SpecGuard == GuardInit /\ [][GuardNext]_vars

\* with loading false and no user the page has redirected to /login; the
\* content is rendered with a user only; every request in flight was sent
\* in a render with a user
Guarded ==
    /\ (guardMounted /\ ~authLoading /\ ~JTruthy(user)) => guardNav = <<"/login">>
    /\ ContentRendered => JTruthy(user)
    /\ \A r \in guardReqs : r.withUser

\* a redirect is issued with loading false, and a request with a user
GuardStep ==
    /\ guardNav' # guardNav => (guardNav' = <<"/login">> /\ ~authLoading')
    /\ guardSent' # guardSent => JTruthy(user')

\* C20: on the home page and the profile page, with loading false and user
\* null a redirect to /login is issued; the content is rendered and
\* getPoints and getCommunityFeed are sent only with a user; no redirect is
\* issued while loading is true.
C20_Guards == []Guarded /\ [][GuardStep]_vars

\* the page has redirected after the fetch of the user failed
C20_Witness ==
    /\ guardNav = <<"/login">>
    /\ refreshed.kind = "rejected"
    /\ ~authLoading
    /\ user = JNull
    /\ guardSent = 0

(***************************************************************************)
(* app/content/[id]/page.tsx                                               *)
(***************************************************************************)
\* what GET /content/{id} may answer: a Content with or without its
\* optional counts
ContentResponses ==
    { [ok |-> TRUE, body |-> JObj(("id" :> JStr("c1")) @@ views @@ likes)] :
        views \in {NoFields, "views_count" :> JNum(0), "views_count" :> JNum(3)},
        likes \in {NoFields,
                   ("likes_count" :> JNum(2)) @@ ("user_liked" :> JBool(TRUE))} }
    \cup { [ok |-> FALSE, body |-> JObj("detail" :> JStr("Content not found"))] }

\* what POST /content/{id}/view may answer
ViewResponses ==
    { [ok |-> TRUE, body |-> JObj("message" :> JStr("View recorded"))],
      [ok |-> FALSE, body |-> NotJson] }

\* what POST /content/{id}/like may answer
LikeResponses ==
    { [ok |-> TRUE, body |-> JObj(("liked" :> JBool(b)) @@ ("likes_count" :> JNum(n)))] :
        b \in BOOLEAN, n \in {0, 1} }
    \cup { [ok |-> FALSE, body |-> JObj("detail" :> JStr("Invalid token"))] }

\* data.views_count || 0
ViewsCountOf(data) ==
    IF Field(data, "views_count").t = "number" THEN Field(data, "views_count").n ELSE 0

\* data.likes_count || 0
LikesCountOf(data) ==
    IF Field(data, "likes_count").t = "number" /\ Field(data, "likes_count").n # 0
      THEN Field(data, "likes_count")
      ELSE JNum(0)

\* data.user_liked || false
UserLikedOf(data) ==
    IF Field(data, "user_liked") = JBool(TRUE) THEN JBool(TRUE) ELSE JBool(FALSE)

\* the effect on [contentId]: with an id, fetchContent and recordView are
\* both called, each up to its await
DetailMount ==
    /\ ~cdMounted
    /\ cdMounted' = TRUE
    /\ IF Truthy(contentId)
         THEN /\ cdLoading' = TRUE
              /\ fetchReq' = "pending"
              /\ viewReq' = "pending"
         ELSE UNCHANGED <<cdLoading, fetchReq, viewReq>>
    /\ UNCHANGED <<contentId, cdContent, cdError, likesCount, viewsCount, userLiked,
                   likeLoading, likeReq>>
    /\ OnlyDetail

\* fetchContent after its await: the four setters, or the catch; finally
\* setLoading(false)
FetchContentSettles ==
    \E resp \in ContentResponses :
        LET out == ApiFetchOutcome(resp)
        IN  /\ fetchReq = "pending"
            /\ fetchReq' = out.state
            /\ IF out.state = "resolved"
                 THEN /\ cdContent' = out.value
                      /\ likesCount' = LikesCountOf(out.value)
                      /\ viewsCount' = ViewsCountOf(out.value)
                      /\ userLiked' = UserLikedOf(out.value)
                      /\ UNCHANGED cdError
                 ELSE /\ cdError' = "Failed to load content"
                      /\ UNCHANGED <<cdContent, likesCount, viewsCount, userLiked>>
            /\ cdLoading' = FALSE
            /\ UNCHANGED <<contentId, likeLoading, cdMounted, viewReq, likeReq>>
            /\ OnlyDetail

\* recordView after its await: setViewsCount(prev => prev + 1), or the catch
RecordViewSettles ==
    \E resp \in ViewResponses :
        LET out == ApiFetchOutcome(resp)
        IN  /\ viewReq = "pending"
            /\ viewReq' = out.state
            /\ viewsCount' = IF out.state = "resolved" THEN viewsCount + 1
                                                        ELSE viewsCount
            /\ UNCHANGED <<contentId, cdContent, cdLoading, cdError, likesCount,
                           userLiked, likeLoading, cdMounted, fetchReq, likeReq>>
            /\ OnlyDetail

\* the page shows the content: neither if (loading) nor if (error || !content)
DetailRendered == ~cdLoading /\ cdError = Null /\ JTruthy(cdContent)

\* handleLike up to its await; the like button is disabled while likeLoading
HandleLike ==
    /\ DetailRendered
    /\ ~likeLoading
    /\ likeLoading' = TRUE
    /\ likeReq' = "pending"
    /\ UNCHANGED <<contentId, cdContent, cdLoading, cdError, likesCount, viewsCount,
                   userLiked, cdMounted, fetchReq, viewReq>>
    /\ OnlyDetail

\* handleLike after its await: the two setters, or the catch; finally
\* setLikeLoading(false)
LikeSettles ==
    \E resp \in LikeResponses :
        LET out == ApiFetchOutcome(resp)
        IN  /\ likeReq = "pending"
            /\ likeReq' = "none"
            /\ IF out.state = "resolved"
                 THEN /\ userLiked' = Field(out.value, "liked")
                      /\ likesCount' = Field(out.value, "likes_count")
                 ELSE UNCHANGED <<userLiked, likesCount>>
            /\ likeLoading' = FALSE
            /\ UNCHANGED <<contentId, cdContent, cdLoading, cdError, viewsCount,
                           cdMounted, fetchReq, viewReq>>
            /\ OnlyDetail

\* the page is opened, with an id in its URL or without
DetailInit ==
    /\ TokenNone /\ ApiIdle /\ AuthIdle /\ RecIdle /\ HelpIdle
    /\ SugIdle /\ UpIdle /\ FeedIdle
    /\ LangIdle /\ HeadIdle /\ LoginIdle /\ GuardIdle
    /\ contentId \in {Null, "c1"}
    /\ DetailFresh

DetailNext ==
    \/ DetailMount
    \/ FetchContentSettles
    \/ RecordViewSettles
    \/ HandleLike
    \/ LikeSettles

SpecDetail == DetailInit /\ [][DetailNext]_vars

\* C24: after getContentById and recordContentView have both succeeded for
\* the page load, the displayed viewsCount is the fetched views_count plus
\* one, whichever of the two requests completed first.
C24_ViewsCount ==
    (fetchReq = "resolved" /\ viewReq = "resolved") =>
        viewsCount = ViewsCountOf(cdContent) + 1

=============================================================================
